---- MODULE Spec2Model ----
(***************************************************************************)
(* A model of the caching HTTP proxy of src/proxy.c: the shared LRU object *)
(* cache (cache_lookup, cache_insert, move_to_front, remove_lru_entry)     *)
(* under its readers-writer lock, and the relay loop of handle_request     *)
(* that stages a response and admits it.                                   *)
(***************************************************************************)
EXTENDS Integers, Sequences, FiniteSets, TLC

\* ------------------------------------------------------------------------
\* Program constants
\* ------------------------------------------------------------------------
MAX_CACHE_SIZE == 1049000
MAX_OBJECT_SIZE == 102400
MAX_LINE == 8192
\* the literal 10 of the eviction loop ("Limit to 10 entries")
ENTRY_LIMIT == 10

\* ------------------------------------------------------------------------
\* Bounds of the model
\* ------------------------------------------------------------------------
\* worker threads running handle_request concurrently
NumWorkers == 2
\* requests started in one behaviour (over all workers)
MaxRequests == 2
\* cells of the heap that malloc hands out as cache_entry_t
NumCells == 11

NULL == 0
Workers == 1..NumWorkers
CellIds == 1..NumCells

\* Keys the workers request; the keys 101.. only occur in the warmed cache.
Keys == {1, 2, 3}
\* Response bodies, as <<content id>> with the sizes below: 1 KiB, exactly
\* MAX_OBJECT_SIZE, and one byte more than MAX_OBJECT_SIZE.
ObjSizes == <<1024, MAX_OBJECT_SIZE, MAX_OBJECT_SIZE + 1>>
Objs == DOMAIN ObjSizes
SizeOf(o) == ObjSizes[o]

\* ------------------------------------------------------------------------
\* The cache: http_cache_t and the cache_entry_t cells of the heap.
\* A cell is "fresh" (never allocated), "live" (allocated) or "freed"
\* (its memory keeps the stale fields until malloc hands it out again).
\* ------------------------------------------------------------------------
FreshCell == [st |-> "fresh", key |-> 0, data |-> 0, data_size |-> 0,
              next |-> NULL, prev |-> NULL]

cache_init == [head |-> NULL, tail |-> NULL, total_size |-> 0, num_entries |-> 0,
               ent |-> [n \in CellIds |-> FreshCell]]

\* The statements of move_to_front(entry) after the head test, one by one.
MtfStmt(c, e, i) ==
    LET p == c.ent[e].prev
        n == c.ent[e].next
    IN CASE i = 1 -> IF p # NULL THEN [c EXCEPT !.ent[p].next = n] ELSE c
         [] i = 2 -> IF n # NULL THEN [c EXCEPT !.ent[n].prev = p] ELSE c
         [] i = 3 -> IF e = c.tail THEN [c EXCEPT !.tail = p] ELSE c
         [] i = 4 -> [c EXCEPT !.ent[e].prev = NULL]
         [] i = 5 -> [c EXCEPT !.ent[e].next = c.head]
         [] i = 6 -> IF c.head # NULL THEN [c EXCEPT !.ent[c.head].prev = e] ELSE c
         [] i = 7 -> [c EXCEPT !.head = e]
         [] i = 8 -> IF c.tail = NULL THEN [c EXCEPT !.tail = e] ELSE c

MtfLast == 8

RECURSIVE MtfFrom(_, _, _)
MtfFrom(c, e, i) == IF i > MtfLast THEN c ELSE MtfFrom(MtfStmt(c, e, i), e, i + 1)

\* move_to_front run by one thread without interference
move_to_front(c, e) == IF e = c.head THEN c ELSE MtfFrom(c, e, 1)

\* a plausible slip: the entry is unlinked and freed but the counters keep
\* counting it
remove_lru_entry_KeepsCount(c) ==
    IF c.tail = NULL THEN c
    ELSE LET lru == c.tail
             p == c.ent[lru].prev
             c1 == IF p # NULL
                   THEN [c EXCEPT !.tail = p, !.ent[p].next = NULL]
                   ELSE [c EXCEPT !.tail = NULL, !.head = NULL]
         IN [c1 EXCEPT !.ent[lru].st = "freed"]

remove_lru_entry(c) ==
    IF c.tail = NULL THEN c
    ELSE LET lru == c.tail
             p == c.ent[lru].prev
             c1 == IF p # NULL
                   THEN [c EXCEPT !.tail = p, !.ent[p].next = NULL]
                   ELSE [c EXCEPT !.tail = NULL, !.head = NULL]
         IN [c1 EXCEPT !.total_size = @ - c.ent[lru].data_size,
                       !.num_entries = @ - 1,
                       !.ent[lru].st = "freed"]

\* a plausible slip: the size is tested before the new object is counted and
\* the entry limit is left out
EvictCond_SizeOnlyBefore(c, data_size) == c.total_size > MAX_CACHE_SIZE

\* a plausible slip: the entry limit is off by one
EvictCond_LimitOffByOne(c, data_size) ==
    \/ c.total_size + data_size > MAX_CACHE_SIZE
    \/ c.num_entries >= ENTRY_LIMIT - 1

\* the condition of the eviction loop of cache_insert
EvictCond(c, data_size) ==
    \/ c.total_size + data_size > MAX_CACHE_SIZE
    \/ c.num_entries >= ENTRY_LIMIT

\* a plausible slip: the object is compared with the size of the whole cache
TooLarge_CacheSize(data_size) == data_size > MAX_CACHE_SIZE

\* "Validate object size" at the entry of cache_insert
TooLarge(data_size) == data_size > MAX_OBJECT_SIZE

\* cache_insert from the successful allocation on: fill the new entry n,
\* put it at the front of the list and update the counters.
InsertEntry(c, n, k, data, data_size) ==
    LET c1 == [c EXCEPT !.ent[n] = [st |-> "live", key |-> k, data |-> data,
                                    data_size |-> data_size,
                                    next |-> c.head, prev |-> NULL]]
        c2 == IF c.head # NULL THEN [c1 EXCEPT !.ent[c.head].prev = n] ELSE c1
        c3 == [c2 EXCEPT !.head = n]
        c4 == IF c.tail = NULL THEN [c3 EXCEPT !.tail = n] ELSE c3
    IN [c4 EXCEPT !.total_size = @ + data_size, !.num_entries = @ + 1]

\* The cells malloc may return: any freed cell, or a cell never used before
\* (those are indistinguishable, so the lowest stands for them all).
FreshCells(c) == {n \in CellIds : c.ent[n].st = "fresh"}
MallocChoices(c) ==
    {n \in CellIds : c.ent[n].st = "freed"} \cup
    (IF FreshCells(c) = {} THEN {}
     ELSE {CHOOSE n \in FreshCells(c) : \A m \in FreshCells(c) : n <= m})

\* ------------------------------------------------------------------------
\* The recency list as seen from head
\* ------------------------------------------------------------------------
RECURSIVE Walk(_, _, _)
\* the cells met following next from cell n, stopping at NULL or at a cell
\* already met (a corrupted list may hold a cycle)
Walk(c, n, seen) ==
    IF n = NULL \/ n \in {seen[i] : i \in 1..Len(seen)} THEN seen
    ELSE Walk(c, c.ent[n].next, Append(seen, n))

FromHead(c) == Walk(c, c.head, <<>>)
ListCells(c) == {FromHead(c)[i] : i \in 1..Len(FromHead(c))}

RECURSIVE SumSizes(_, _)
SumSizes(c, s) ==
    IF s = <<>> THEN 0 ELSE c.ent[Head(s)].data_size + SumSizes(c, Tail(s))

\* ------------------------------------------------------------------------
\* A sequential run of cache_insert, used to warm the cache
\* ------------------------------------------------------------------------
RECURSIVE EvictLoop(_, _)
EvictLoop(c, data_size) ==
    IF EvictCond(c, data_size) /\ c.tail # NULL
    THEN EvictLoop(remove_lru_entry(c), data_size)
    ELSE c

cache_insert_seq(c, k, o) ==
    IF TooLarge(SizeOf(o)) THEN c
    ELSE LET c1 == EvictLoop(c, SizeOf(o))
             n == CHOOSE m \in MallocChoices(c1) :
                      \A m2 \in MallocChoices(c1) : m <= m2
         IN InsertEntry(c1, n, k, o, SizeOf(o))

RECURSIVE Warm(_, _)
Warm(c, reqs) ==
    IF reqs = <<>> THEN c
    ELSE Warm(cache_insert_seq(c, Head(reqs)[1], Head(reqs)[2]), Tail(reqs))

\* The caches a behaviour starts from: the empty cache of cache_init, and the
\* caches left by nine and by ten sequential misses on distinct keys.
WarmNine == << <<1, 2>>, <<2, 2>>, <<101, 2>>, <<102, 2>>, <<103, 2>>, <<104, 2>>,
               <<105, 2>>, <<106, 2>>, <<107, 2>> >>
WarmUps == { <<>>, WarmNine, Append(WarmNine, <<108, 2>>) }

\* ------------------------------------------------------------------------
\* State
\* ------------------------------------------------------------------------
VARIABLES
    cache,      \* global_cache and the entries on the heap
    readers,    \* threads holding cache_lock for reading
    writer,     \* thread holding cache_lock for writing, or 0
    pc,         \* where each worker stands
    key,        \* the cache_key of the worker's request
    cur,        \* cache_lookup's `current` / move_to_front's `entry`
    buf,        \* cache_buffer and cache_buffer_size
    ret,        \* return value of the worker's cache call
    val,        \* the response the worker admits
    stmt,       \* the statement of move_to_front the worker runs next
    nreq,       \* requests started
    pre,        \* history: total_size and num_entries when the worker took the write lock
    nevict,     \* history: entries the worker's cache_insert call has evicted
    lastAdmit   \* history: key and data of the last completed admit, while no other admit has begun

cacheVars == <<cache, readers, writer, pc, key, cur, buf, ret, val, stmt, nreq,
               pre, nevict, lastAdmit>>

NoBuf == [data |-> 0, size |-> MAX_OBJECT_SIZE]
NoPre == [total_size |-> 0, num_entries |-> 0]
NoAdmitYet == [key |-> 0, data |-> 0]

CacheInit ==
    /\ cache \in {Warm(cache_init, w) : w \in WarmUps}
    /\ readers = {}
    /\ writer = 0
    /\ pc = [w \in Workers |-> "idle"]
    /\ key = [w \in Workers |-> 0]
    /\ cur = [w \in Workers |-> NULL]
    /\ buf = [w \in Workers |-> NoBuf]
    /\ ret = [w \in Workers |-> 0]
    /\ val = [w \in Workers |-> 0]
    /\ stmt = [w \in Workers |-> 0]
    /\ nreq = 0
    /\ pre = [w \in Workers |-> NoPre]
    /\ nevict = [w \in Workers |-> 0]
    /\ lastAdmit = NoAdmitYet

\* ------------------------------------------------------------------------
\* cache_lookup
\* ------------------------------------------------------------------------
\* handle_request calls cache_lookup(cache_key, cache_buffer, &cache_buffer_size)
\* with cache_buffer_size = MAX_OBJECT_SIZE. Idle workers are interchangeable
\* threads: the request goes to the first of them.
LookupCall(w, k) ==
    /\ pc[w] = "idle"
    /\ \A v \in Workers : v < w => pc[v] # "idle"
    /\ nreq < MaxRequests
    /\ nreq' = nreq + 1
    /\ key' = [key EXCEPT ![w] = k]
    /\ buf' = [buf EXCEPT ![w] = NoBuf]
    /\ pc' = [pc EXCEPT ![w] = "rdlock"]
    /\ UNCHANGED <<cache, readers, writer, cur, ret, val, stmt, pre, nevict, lastAdmit>>

\* pthread_rwlock_rdlock; current = global_cache.head
LookupLock(w) ==
    /\ pc[w] = "rdlock"
    /\ writer = 0
    /\ readers' = readers \cup {w}
    /\ cur' = [cur EXCEPT ![w] = cache.head]
    /\ pc' = [pc EXCEPT ![w] = "scan"]
    /\ UNCHANGED <<cache, writer, key, buf, ret, val, stmt, nreq, pre, nevict, lastAdmit>>

\* one iteration of the scan loop, or its end
LookupScan(w) ==
    /\ pc[w] = "scan"
    /\ IF cur[w] = NULL
       THEN \* not found: unlock, return -1
            /\ readers' = readers \ {w}
            /\ ret' = [ret EXCEPT ![w] = -1]
            /\ pc' = [pc EXCEPT ![w] = "missed"]
            /\ UNCHANGED <<cur, buf>>
       ELSE IF cache.ent[cur[w]].key = key[w]
       THEN IF buf[w].size >= cache.ent[cur[w]].data_size
            THEN \* memcpy and *buffer_size = data_size
                 /\ buf' = [buf EXCEPT ![w] = [data |-> cache.ent[cur[w]].data,
                                               size |-> cache.ent[cur[w]].data_size]]
                 /\ pc' = [pc EXCEPT ![w] = "mtf0"]
                 /\ UNCHANGED <<readers, ret, cur>>
            ELSE \* buffer too small: unlock, return -1
                 /\ readers' = readers \ {w}
                 /\ ret' = [ret EXCEPT ![w] = -1]
                 /\ pc' = [pc EXCEPT ![w] = "missed"]
                 /\ UNCHANGED <<cur, buf>>
       ELSE /\ cur' = [cur EXCEPT ![w] = cache.ent[cur[w]].next]
            /\ UNCHANGED <<readers, ret, pc, buf>>
    /\ UNCHANGED <<cache, writer, key, val, stmt, nreq, pre, nevict, lastAdmit>>

\* move_to_front(current): the head test
PromoteTest(w) ==
    /\ pc[w] = "mtf0"
    /\ IF cur[w] = cache.head
       THEN /\ pc' = [pc EXCEPT ![w] = "unlock"]
            /\ stmt' = stmt
       ELSE /\ pc' = [pc EXCEPT ![w] = "mtf"]
            /\ stmt' = [stmt EXCEPT ![w] = 1]
    /\ UNCHANGED <<cache, readers, writer, key, cur, buf, ret, val, nreq, pre, nevict, lastAdmit>>

\* move_to_front(current): its next statement, run holding the read lock
PromoteStep(w) ==
    /\ pc[w] = "mtf"
    /\ cache' = MtfStmt(cache, cur[w], stmt[w])
    /\ IF stmt[w] = MtfLast
       THEN /\ pc' = [pc EXCEPT ![w] = "unlock"]
            /\ stmt' = [stmt EXCEPT ![w] = 0]
       ELSE /\ pc' = pc
            /\ stmt' = [stmt EXCEPT ![w] = @ + 1]
    /\ UNCHANGED <<readers, writer, key, cur, buf, ret, val, nreq, pre, nevict, lastAdmit>>

\* pthread_rwlock_unlock; return 0
LookupHit(w) ==
    /\ pc[w] = "unlock"
    /\ readers' = readers \ {w}
    /\ ret' = [ret EXCEPT ![w] = 0]
    /\ pc' = [pc EXCEPT ![w] = "hit"]
    /\ UNCHANGED <<cache, writer, key, cur, buf, val, stmt, nreq, pre, nevict, lastAdmit>>

\* ------------------------------------------------------------------------
\* cache_insert
\* ------------------------------------------------------------------------
\* cache_insert(cache_key, data, data_size) is entered after a miss. Its
\* argument o ranges over sizes on both sides of MAX_OBJECT_SIZE (the caller's
\* own test, AdmitTest, passes the sizes up to it). "Validate object size":
\* it returns -1 when data_size > MAX_OBJECT_SIZE.
InsertCall(w, o) ==
    /\ pc[w] = "missed"
    /\ val' = [val EXCEPT ![w] = o]
    /\ IF TooLarge(SizeOf(o))
       THEN /\ ret' = [ret EXCEPT ![w] = -1]
            /\ pc' = [pc EXCEPT ![w] = "rejected"]
       ELSE /\ ret' = ret
            /\ pc' = [pc EXCEPT ![w] = "wrlock"]
    /\ UNCHANGED <<cache, readers, writer, key, cur, buf, stmt, nreq, pre, nevict, lastAdmit>>

\* InsertLock taking the lock as a reader would: it waits for the writer only
InsertLock_NoWaitForReaders(w) ==
    /\ pc[w] = "wrlock"
    /\ writer = 0
    /\ writer' = w
    /\ pc' = [pc EXCEPT ![w] = "evict"]
    /\ pre' = [pre EXCEPT ![w] = [total_size |-> cache.total_size,
                                  num_entries |-> cache.num_entries]]
    /\ lastAdmit' = NoAdmitYet
    /\ UNCHANGED <<cache, readers, key, cur, buf, ret, val, stmt, nreq, nevict>>

\* pthread_rwlock_wrlock
InsertLock(w) ==
    /\ pc[w] = "wrlock"
    /\ writer = 0
    /\ readers = {}
    /\ writer' = w
    /\ pc' = [pc EXCEPT ![w] = "evict"]
    /\ pre' = [pre EXCEPT ![w] = [total_size |-> cache.total_size,
                                  num_entries |-> cache.num_entries]]
    /\ lastAdmit' = NoAdmitYet
    /\ UNCHANGED <<cache, readers, key, cur, buf, ret, val, stmt, nreq, nevict>>

\* the eviction loop: one test of its condition, and one remove_lru_entry
InsertEvict(w) ==
    /\ pc[w] = "evict"
    /\ IF EvictCond(cache, SizeOf(val[w]))
       THEN /\ cache' = remove_lru_entry(cache)
            /\ nevict' = [nevict EXCEPT ![w] = IF cache.tail # NULL THEN 1 ELSE @]
            /\ pc' = pc
       ELSE /\ cache' = cache
            /\ nevict' = nevict
            /\ pc' = [pc EXCEPT ![w] = "alloc"]
    /\ UNCHANGED <<readers, writer, key, cur, buf, ret, val, stmt, nreq, pre, lastAdmit>>

\* malloc or strdup returns NULL: free what was allocated, unlock, return -1
InsertAllocFail(w) ==
    /\ pc[w] = "alloc"
    /\ writer' = 0
    /\ ret' = [ret EXCEPT ![w] = -1]
    /\ pc' = [pc EXCEPT ![w] = "failed"]
    /\ UNCHANGED <<cache, readers, key, cur, buf, val, stmt, nreq, pre, nevict, lastAdmit>>

\* the allocations succeed: link the entry at the head, unlock, return 0
InsertDone(w, n) ==
    /\ pc[w] = "alloc"
    /\ n \in MallocChoices(cache)
    /\ cache' = InsertEntry(cache, n, key[w], val[w], SizeOf(val[w]))
    /\ writer' = 0
    /\ ret' = [ret EXCEPT ![w] = 0]
    /\ pc' = [pc EXCEPT ![w] = "inserted"]
    /\ lastAdmit' = [key |-> key[w], data |-> val[w]]
    /\ UNCHANGED <<readers, key, cur, buf, stmt, val, nreq, pre, nevict>>

\* ------------------------------------------------------------------------
\* The worker around the cache calls
\* ------------------------------------------------------------------------
\* handle_request returns: after a hit (the cached bytes are written to the
\* client), after cache_insert returned, or after a miss that admits nothing
\* (the request was dropped, or the response was empty). Its locals die.
WorkerReturn(w) ==
    /\ pc[w] \in {"hit", "missed", "rejected", "failed", "inserted"}
    /\ pc' = [pc EXCEPT ![w] = "idle"]
    /\ key' = [key EXCEPT ![w] = 0]
    /\ cur' = [cur EXCEPT ![w] = NULL]
    /\ buf' = [buf EXCEPT ![w] = NoBuf]
    /\ ret' = [ret EXCEPT ![w] = 0]
    /\ val' = [val EXCEPT ![w] = 0]
    /\ pre' = [pre EXCEPT ![w] = NoPre]
    /\ nevict' = [nevict EXCEPT ![w] = 0]
    /\ UNCHANGED <<cache, readers, writer, stmt, nreq, lastAdmit>>

\* ------------------------------------------------------------------------
\* The relay loop of handle_request: one worker, from the first read of the
\* upstream response to the admit. The response is the bytes at offsets
\* 0, 1, 2, ...; a run of them is a segment [off, len].
\* ------------------------------------------------------------------------
\* reads of the upstream descriptor in one behaviour
MaxReads == 15
\* the sizes a read of up to MAX_LINE bytes returns
ChunkSizes == {1, 4096, MAX_LINE}

VARIABLES
    rpc,                  \* where the relaying worker stands
    rcvd,                 \* bytes the origin has produced so far
    num_bytes,            \* handle_request's num_bytes
    chunk,                \* the segment held in buf
    response_buffer,      \* the segments copied into the staging buffer, in order
    total_response_size,
    client_out,           \* the segments written to the client, in order
    nreads,               \* reads done
    admitted              \* the arguments of the cache_insert call, if one was made

relayVars == <<rpc, rcvd, num_bytes, chunk, response_buffer, total_response_size,
               client_out, nreads, admitted>>

NoSeg == [off |-> 0, len |-> 0]
NotAdmitted == [called |-> FALSE, data |-> <<>>, data_size |-> 0]

\* s followed by the bytes of segment g
AppendSeg(s, g) ==
    IF g.len = 0 THEN s
    ELSE IF s # <<>> /\ s[Len(s)].off + s[Len(s)].len = g.off
         THEN [s EXCEPT ![Len(s)].len = @ + g.len]
         ELSE Append(s, g)

RelayStart ==
    /\ rcvd = 0
    /\ num_bytes = 0
    /\ chunk = NoSeg
    /\ response_buffer = <<>>
    /\ total_response_size = 0
    /\ client_out = <<>>
    /\ nreads = 0
    /\ admitted = NotAdmitted

\* num_bytes = read(server_fd, buf, MAX_LINE) returns n > 0 bytes
RelayRead(n) ==
    /\ rpc = "read"
    /\ nreads < MaxReads
    /\ nreads' = nreads + 1
    /\ num_bytes' = n
    /\ chunk' = [off |-> rcvd, len |-> n]
    /\ rcvd' = rcvd + n
    /\ rpc' = "write"
    /\ UNCHANGED <<response_buffer, total_response_size, client_out, admitted>>

\* read returns 0: the origin closed the connection
RelayReadEOF ==
    /\ rpc = "read"
    /\ num_bytes' = 0
    /\ chunk' = NoSeg
    /\ rpc' = "write"
    /\ UNCHANGED <<rcvd, response_buffer, total_response_size, client_out, nreads, admitted>>

\* read fails: error_read_server closes server_fd and handle_request returns
RelayReadError ==
    /\ rpc = "read"
    /\ num_bytes' = -1
    /\ rpc' = "dropped"
    /\ UNCHANGED <<rcvd, chunk, response_buffer, total_response_size, client_out, nreads, admitted>>

\* RelayWrite forwarding a chunk only when it also fits the staging buffer
RelayWrite_OnlyWhatIsStaged ==
    /\ rpc = "write"
    /\ client_out' = IF total_response_size + num_bytes <= MAX_OBJECT_SIZE
                      THEN AppendSeg(client_out, chunk) ELSE client_out
    /\ rpc' = "stage"
    /\ UNCHANGED <<rcvd, num_bytes, chunk, response_buffer, total_response_size, nreads, admitted>>

\* num_bytes = write_all(client_fd, buf, num_bytes) succeeds
RelayWrite ==
    /\ rpc = "write"
    /\ client_out' = AppendSeg(client_out, chunk)
    /\ rpc' = "stage"
    /\ UNCHANGED <<rcvd, num_bytes, chunk, response_buffer, total_response_size, nreads, admitted>>

\* RelayWriteError leaving the loop for the admit test instead of returning
RelayWriteError_EndsLoop ==
    /\ rpc = "write"
    /\ num_bytes > 0
    /\ num_bytes' = -1
    /\ rpc' = "eof"
    /\ UNCHANGED <<rcvd, chunk, response_buffer, total_response_size, client_out, nreads, admitted>>

\* write_all fails: error_write_client closes client_fd and handle_request returns
RelayWriteError ==
    /\ rpc = "write"
    /\ num_bytes > 0
    /\ num_bytes' = -1
    /\ rpc' = "dropped"
    /\ UNCHANGED <<rcvd, chunk, response_buffer, total_response_size, client_out, nreads, admitted>>

\* "Accumulate response for potential caching", and the loop test
Stage(buffer, total, g, n) ==
    IF total + n <= MAX_OBJECT_SIZE
    THEN [buffer |-> AppendSeg(buffer, g), total |-> total + n]
    ELSE [buffer |-> buffer, total |-> total]

RelayStage ==
    /\ rpc = "stage"
    /\ LET st == Stage(response_buffer, total_response_size, chunk, num_bytes)
       IN /\ response_buffer' = st.buffer
          /\ total_response_size' = st.total
    /\ rpc' = IF num_bytes > 0 THEN "read" ELSE "eof"
    /\ UNCHANGED <<rcvd, num_bytes, chunk, client_out, nreads, admitted>>

\* "Cache the response if it's within size limits"
AdmitTest(total) == total > 0 /\ total <= MAX_OBJECT_SIZE

RelayAdmit ==
    /\ rpc = "eof"
    /\ admitted' = IF AdmitTest(total_response_size)
                   THEN [called |-> TRUE, data |-> response_buffer,
                         data_size |-> total_response_size]
                   ELSE admitted
    /\ rpc' = "done"
    /\ UNCHANGED <<rcvd, num_bytes, chunk, response_buffer, total_response_size,
                   client_out, nreads>>

\* ------------------------------------------------------------------------
\* The cache key of a request: parse_uri and the key handle_request builds
\* from its outputs. Strings are sequences of characters.
\* ------------------------------------------------------------------------
\* requests in one behaviour
MaxKeyRequests == 2

Schemes == { <<"h", "t", "t", "p", ":">>, <<"f", "t", "p", ":">> }
Hosts == { <<"a">>, <<"b">> }
Ports == { <<>>, <<":", "8", "0">>, <<":", "8", "1">> }
Paths == { <<>>, <<"/">>, <<"/", "x">>, <<"/", "x", ":", "1">> }
\* absolute-form URIs scheme://host[:port][/path]
URIs == { s \o <<"/", "/">> \o h \o p \o q :
            s \in Schemes, h \in Hosts, p \in Ports, q \in Paths }

\* strchr(s, ch): the position of the first ch in s, or 0
strchr(s, ch) ==
    IF \E i \in 1..Len(s) : s[i] = ch
    THEN CHOOSE i \in 1..Len(s) : s[i] = ch /\ \A j \in 1..(i - 1) : s[j] # ch
    ELSE 0

\* strstr(s, "//"): the position of the first "//" in s, or 0
strstr_slashes(s) ==
    IF \E i \in 1..(Len(s) - 1) : s[i] = "/" /\ s[i + 1] = "/"
    THEN CHOOSE i \in 1..(Len(s) - 1) :
            /\ s[i] = "/" /\ s[i + 1] = "/"
            /\ \A j \in 1..(i - 1) : ~(s[j] = "/" /\ s[j + 1] = "/")
    ELSE 0

\* parse_uri looking for ':' before the path has been cut off
parse_uri_ColonAnywhere(u) ==
    LET pstart == SubSeq(u, strstr_slashes(u) + 2, Len(u))
        ppath  == strchr(pstart, "/")
        auth   == IF ppath = 0 THEN pstart ELSE SubSeq(pstart, 1, ppath - 1)
        pport  == strchr(pstart, ":")
    IN [path     |-> IF ppath = 0 THEN <<"/">> ELSE SubSeq(pstart, ppath, Len(pstart)),
        port     |-> IF pport = 0 THEN <<"8", "0">> ELSE SubSeq(pstart, pport + 1, Len(pstart)),
        hostname |-> IF pport = 0 THEN auth ELSE SubSeq(pstart, 1, pport - 1)]

\* parse_uri(uri, hostname, path, port) for a uri that contains "//"
parse_uri(u) ==
    LET pstart == SubSeq(u, strstr_slashes(u) + 2, Len(u))
        ppath  == strchr(pstart, "/")
        auth   == IF ppath = 0 THEN pstart ELSE SubSeq(pstart, 1, ppath - 1)
        pport  == strchr(auth, ":")
    IN [path     |-> IF ppath = 0 THEN <<"/">> ELSE SubSeq(pstart, ppath, Len(pstart)),
        port     |-> IF pport = 0 THEN <<"8", "0">> ELSE SubSeq(auth, pport + 1, Len(auth)),
        hostname |-> IF pport = 0 THEN auth ELSE SubSeq(auth, 1, pport - 1)]

\* snprintf(cache_key, sizeof(cache_key), "%s%s", hostname, path)
CacheKey(host, pth) == host \o pth

VARIABLES
    kpc,        \* where the worker stands
    uri,        \* the URI of the request line
    hostname, path, port,   \* the outputs of parse_uri
    cache_key,
    stored,     \* the cache: the keys admitted, each with the URI it was admitted for
    served,     \* history: the URI whose response the last hit wrote to the client
    nkreq       \* requests started

keyVars == <<kpc, uri, hostname, path, port, cache_key, stored, served, nkreq>>

NotServed == [hit |-> FALSE, from |-> <<>>]

KeyStart ==
    /\ uri = <<>>
    /\ hostname = <<>>
    /\ path = <<>>
    /\ port = <<>>
    /\ cache_key = <<>>
    /\ stored = {}
    /\ served = NotServed
    /\ nkreq = 0

\* sscanf of the request line gives uri; parse_uri(uri, hostname, path, port)
KeyParse(u) ==
    /\ kpc = "idle"
    /\ nkreq < MaxKeyRequests
    /\ nkreq' = nkreq + 1
    /\ uri' = u
    /\ hostname' = parse_uri(u).hostname
    /\ path' = parse_uri(u).path
    /\ port' = parse_uri(u).port
    /\ served' = NotServed
    /\ kpc' = "parsed"
    /\ UNCHANGED <<cache_key, stored>>

\* request URIs that contain no "//": origin form, or a bare host and path
BadURIs == { <<"/", "x">>, <<"a", "/", "x">> }

\* what parse_uri does on such a uri: strstr returns NULL, pstart is the
\* address 2 and strchr(pstart, '/') reads from it. The behaviour is
\* undefined: the read faults and the signal ends the process, or it yields
\* whatever bytes are found there
WildReads == {"fault", "bytes"}
WildParse == [path |-> <<"/">>, port |-> <<"8", "0">>, hostname |-> <<"?">>]

\* sscanf gives a uri without "//"; parse_uri(uri, hostname, path, port)
KeyParseNoSlashes(u, r) ==
    /\ kpc = "idle"
    /\ nkreq < MaxKeyRequests
    /\ strstr_slashes(u) = 0
    /\ nkreq' = nkreq + 1
    /\ uri' = u
    /\ served' = NotServed
    /\ IF r = "fault"
       THEN /\ kpc' = "crashed"
            /\ UNCHANGED <<hostname, path, port>>
       ELSE /\ kpc' = "parsed"
            /\ hostname' = WildParse.hostname
            /\ path' = WildParse.path
            /\ port' = WildParse.port
    /\ UNCHANGED <<cache_key, stored>>

\* the cache key is built from hostname and path
KeyCompose ==
    /\ kpc = "parsed"
    /\ cache_key' = CacheKey(hostname, path)
    /\ kpc' = "lookup"
    /\ UNCHANGED <<uri, hostname, path, port, stored, served, nkreq>>

\* cache_lookup(cache_key, ...) returns 0: the cached response is written to
\* the client and handle_request returns
KeyHit ==
    /\ kpc = "lookup"
    /\ \E s \in stored :
          /\ s.key = cache_key
          /\ served' = [hit |-> TRUE, from |-> s.uri]
    /\ kpc' = "idle"
    /\ UNCHANGED <<uri, hostname, path, port, cache_key, stored, nkreq>>

\* cache_lookup returns -1: the response is fetched from the origin
KeyMiss ==
    /\ kpc = "lookup"
    /\ \A s \in stored : s.key # cache_key
    /\ kpc' = "fetched"
    /\ UNCHANGED <<uri, hostname, path, port, cache_key, stored, served, nkreq>>

\* cache_insert(cache_key, response_buffer, total_response_size)
KeyAdmit ==
    /\ kpc = "fetched"
    /\ stored' = stored \cup {[key |-> cache_key, uri |-> uri]}
    /\ kpc' = "idle"
    /\ UNCHANGED <<uri, hostname, path, port, cache_key, served, nkreq>>

\* the response was empty or the relay was cut short: nothing is admitted
KeyNoAdmit ==
    /\ kpc = "fetched"
    /\ kpc' = "idle"
    /\ UNCHANGED <<uri, hostname, path, port, cache_key, stored, served, nkreq>>

\* ------------------------------------------------------------------------
\* The connection workers and their descriptors: handle_connection_request,
\* handle_request_thread and the path of handle_request through its error
\* tests. The descriptor table is the process's: accept and socket return the
\* lowest descriptor number not in use, close on a number not in use fails
\* with EBADF and changes nothing.
\* ------------------------------------------------------------------------
\* worker threads alive at once
NumThreads == 2
\* descriptor numbers besides the listening socket
MaxFd == 3
\* connections accepted in one behaviour
MaxAccepts == 2

Threads == 1..NumThreads
Fds == 1..MaxFd
NoFd == 0

\* tolower
UpperCase == <<"A", "B", "C", "D", "E", "F", "G", "H", "I", "J", "K", "L", "M", "N",
      "O", "P", "Q", "R", "S", "T", "U", "V", "W", "X", "Y", "Z">>
LowerCase == <<"a", "b", "c", "d", "e", "f", "g", "h", "i", "j", "k", "l", "m", "n",
      "o", "p", "q", "r", "s", "t", "u", "v", "w", "x", "y", "z">>
ToLower(ch) ==
    IF \E i \in 1..Len(UpperCase) : UpperCase[i] = ch
    THEN LowerCase[CHOOSE i \in 1..Len(UpperCase) : UpperCase[i] = ch]
    ELSE ch

\* strcasecmp(a, b) = 0
strcasecmp_eq(a, b) ==
    /\ Len(a) = Len(b)
    /\ \A i \in 1..Len(a) : ToLower(a[i]) = ToLower(b[i])

\* the method tokens of the request lines
Methods == { <<"G", "E", "T">>, <<"g", "e", "t">>, <<"P", "O", "S", "T">>,
             <<"G", "E", "T", "S">> }

\* error_non_get with strncasecmp(method, "GET", 3) in place of strcasecmp
error_non_get_PrefixOnly(m) ==
    ~(Len(m) >= 3 /\ strcasecmp_eq(SubSeq(m, 1, 3), <<"G", "E", "T">>))

\* error_non_get(method)
error_non_get(m) == ~strcasecmp_eq(m, <<"G", "E", "T">>)

ClosedFd == [kind |-> "closed", owner |-> 0]
NothingDone ==
    [lookup |-> FALSE, hdr |-> FALSE, hdr_end |-> "none", return_cd |-> -1,
     connect |-> FALSE, admit |-> FALSE]
NoClose == [by |-> 0, fd |-> NoFd, was |-> "none"]

VARIABLES
    fdt,        \* the descriptor table: per number, closed, or its kind and the connection that opened it
    wpc,        \* where each worker thread stands
    conn,       \* the number of the connection the thread serves
    client_fd,  \* handle_request_thread's client_fd
    server_fd,  \* handle_request's server_fd
    method,     \* the method token of the request line
    did,        \* history: what the worker has done for its request
    lastClose,  \* history: the last close call, and what its descriptor number was when it was made
    naccept     \* connections accepted

reqVars == <<fdt, wpc, conn, client_fd, server_fd, method, did, lastClose, naccept>>

ReqStart ==
    /\ fdt = [f \in Fds |-> ClosedFd]
    /\ conn = [t \in Threads |-> 0]
    /\ client_fd = [t \in Threads |-> NoFd]
    /\ server_fd = [t \in Threads |-> NoFd]
    /\ method = [t \in Threads |-> <<>>]
    /\ did = [t \in Threads |-> NothingDone]
    /\ lastClose = NoClose
    /\ naccept = 0

FreeFds(tab) == {f \in Fds : tab[f].kind = "closed"}
LowestFree(tab) == CHOOSE f \in FreeFds(tab) : \A g \in FreeFds(tab) : f <= g

\* close(f) by the worker of connection c
CloseFd(tab, f) == IF f \in Fds THEN [tab EXCEPT ![f] = ClosedFd] ELSE tab
CloseCall(tab, c, f) ==
    [by |-> c, fd |-> f,
     was |-> IF f \notin Fds \/ tab[f].kind = "closed" THEN "closed"
             ELSE IF tab[f].owner = c THEN "own" ELSE "foreign"]

\* handle_connection_request: accept succeeds and a detached thread is created
\* for the connection (free thread slots are interchangeable)
Accept(t) ==
    /\ wpc[t] = "free"
    /\ \A u \in Threads : u < t => wpc[u] # "free"
    /\ naccept < MaxAccepts
    /\ FreeFds(fdt) # {}
    /\ naccept' = naccept + 1
    /\ conn' = [conn EXCEPT ![t] = naccept + 1]
    /\ client_fd' = [client_fd EXCEPT ![t] = LowestFree(fdt)]
    /\ fdt' = [fdt EXCEPT ![LowestFree(fdt)] = [kind |-> "client", owner |-> naccept + 1]]
    /\ server_fd' = [server_fd EXCEPT ![t] = NoFd]
    /\ method' = [method EXCEPT ![t] = <<>>]
    /\ did' = [did EXCEPT ![t] = NothingDone]
    /\ wpc' = [wpc EXCEPT ![t] = "reqline"]
    /\ UNCHANGED lastClose

\* read_line gives the request line and sscanf its method token
ReadRequestLine(t, m) ==
    /\ wpc[t] = "reqline"
    /\ method' = [method EXCEPT ![t] = m]
    /\ wpc' = [wpc EXCEPT ![t] = "method"]
    /\ UNCHANGED <<fdt, conn, client_fd, server_fd, did, lastClose, naccept>>

\* read_line returns 0 or less: error_read, handle_request returns
ReadRequestLineFail(t) ==
    /\ wpc[t] = "reqline"
    /\ wpc' = [wpc EXCEPT ![t] = "ret"]
    /\ UNCHANGED <<fdt, conn, client_fd, server_fd, method, did, lastClose, naccept>>

\* if ( error_non_get ( method ) ) { return; }
MethodCheck(t) ==
    /\ wpc[t] = "method"
    /\ wpc' = [wpc EXCEPT ![t] = IF error_non_get(method[t]) THEN "ret" ELSE "lookup"]
    /\ UNCHANGED <<fdt, conn, client_fd, server_fd, method, did, lastClose, naccept>>

\* parse_uri, cache_lookup returns 0: write_all to the client, return
CacheHit(t) ==
    /\ wpc[t] = "lookup"
    /\ did' = [did EXCEPT ![t].lookup = TRUE]
    /\ wpc' = [wpc EXCEPT ![t] = "ret"]
    /\ UNCHANGED <<fdt, conn, client_fd, server_fd, method, lastClose, naccept>>

\* parse_uri, cache_lookup returns -1
CacheMiss(t) ==
    /\ wpc[t] = "lookup"
    /\ did' = [did EXCEPT ![t].lookup = TRUE]
    /\ wpc' = [wpc EXCEPT ![t] = "header"]
    /\ UNCHANGED <<fdt, conn, client_fd, server_fd, method, lastClose, naccept>>

\* how the client's header lines end: with the blank line, with EOF before
\* it, or with a read error before it
HeaderEnds == {"blank", "eof", "error"}

\* the value set_request_header returns: 0 from the error_read test in its
\* loop, 1 after the break on the blank line
set_request_header_ret(end) == IF end = "blank" THEN 1 ELSE 0

\* error_header with return_cd < 0 in place of return_cd <= 0
error_header_NegativeOnly(return_cd) == return_cd < 0

\* error_header(return_cd)
error_header(return_cd) == return_cd <= 0

\* return_cd = set_request_header(...); if ( error_header ( return_cd ) ) { return; }
SetRequestHeader(t, end) ==
    /\ wpc[t] = "header"
    /\ did' = [did EXCEPT ![t].hdr = TRUE, ![t].hdr_end = end,
                          ![t].return_cd = set_request_header_ret(end)]
    /\ wpc' = [wpc EXCEPT ![t] = IF error_header(set_request_header_ret(end))
                                 THEN "ret" ELSE "connect"]
    /\ UNCHANGED <<fdt, conn, client_fd, server_fd, method, lastClose, naccept>>

\* create_server_fd returns a connected descriptor
ConnectOk(t) ==
    /\ wpc[t] = "connect"
    /\ FreeFds(fdt) # {}
    /\ server_fd' = [server_fd EXCEPT ![t] = LowestFree(fdt)]
    /\ fdt' = [fdt EXCEPT ![LowestFree(fdt)] = [kind |-> "server", owner |-> conn[t]]]
    /\ did' = [did EXCEPT ![t].connect = TRUE]
    /\ wpc' = [wpc EXCEPT ![t] = "sendreq"]
    /\ UNCHANGED <<conn, client_fd, method, lastClose, naccept>>

\* create_server_fd returns -1: error_socket_server, return
ConnectFail(t) ==
    /\ wpc[t] = "connect"
    /\ server_fd' = [server_fd EXCEPT ![t] = -1]
    /\ wpc' = [wpc EXCEPT ![t] = "ret"]
    /\ UNCHANGED <<fdt, conn, client_fd, method, did, lastClose, naccept>>

\* write_all of the request header to server_fd succeeds
SendRequestOk(t) ==
    /\ wpc[t] = "sendreq"
    /\ wpc' = [wpc EXCEPT ![t] = "relay"]
    /\ UNCHANGED <<fdt, conn, client_fd, server_fd, method, did, lastClose, naccept>>

\* it fails: error_write_server closes server_fd, return
SendRequestFail(t) ==
    /\ wpc[t] = "sendreq"
    /\ lastClose' = CloseCall(fdt, conn[t], server_fd[t])
    /\ fdt' = CloseFd(fdt, server_fd[t])
    /\ wpc' = [wpc EXCEPT ![t] = "ret"]
    /\ UNCHANGED <<conn, client_fd, server_fd, method, did, naccept>>

\* relay loop: read fails, error_read_server closes server_fd, return
RelayServerReadFail(t) ==
    /\ wpc[t] = "relay"
    /\ lastClose' = CloseCall(fdt, conn[t], server_fd[t])
    /\ fdt' = CloseFd(fdt, server_fd[t])
    /\ wpc' = [wpc EXCEPT ![t] = "ret"]
    /\ UNCHANGED <<conn, client_fd, server_fd, method, did, naccept>>

\* relay loop: write_all to the client fails, error_write_client closes
\* client_fd, return
RelayClientWriteFail(t) ==
    /\ wpc[t] = "relay"
    /\ lastClose' = CloseCall(fdt, conn[t], client_fd[t])
    /\ fdt' = CloseFd(fdt, client_fd[t])
    /\ wpc' = [wpc EXCEPT ![t] = "ret"]
    /\ UNCHANGED <<conn, client_fd, server_fd, method, did, naccept>>

\* relay loop ends at EOF; cache_insert is called or not (a); close(server_fd)
RelayEnd(t, a) ==
    /\ wpc[t] = "relay"
    /\ did' = [did EXCEPT ![t].admit = a]
    /\ lastClose' = CloseCall(fdt, conn[t], server_fd[t])
    /\ fdt' = CloseFd(fdt, server_fd[t])
    /\ wpc' = [wpc EXCEPT ![t] = "ret"]
    /\ UNCHANGED <<conn, client_fd, server_fd, method, naccept>>

\* handle_request_thread after handle_request: close(client_fd); return NULL
ThreadClose(t) ==
    /\ wpc[t] = "ret"
    /\ lastClose' = CloseCall(fdt, conn[t], client_fd[t])
    /\ fdt' = CloseFd(fdt, client_fd[t])
    /\ wpc' = [wpc EXCEPT ![t] = "free"]
    /\ UNCHANGED <<conn, client_fd, server_fd, method, did, naccept>>

\* ------------------------------------------------------------------------
\* set_request_header: the header block compiled from the client's header
\* lines. Buffers are sequences of characters; the one code point of
\* HOST_FLD_FMT outside ASCII is the element "U+FF1A".
\* ------------------------------------------------------------------------
\* header lines read from the client before the blank line
MaxHdrLines == 2

REQUEST_LINE_PATH == <<"/">>
HDR_HOSTNAME == <<"a">>
HDR_PORT == <<"8", "0">>

\* sprintf(request_line, REQUEST_LINE_FMT, path)
REQUEST_LINE(p) == <<"G", "E", "T", " ">> \o p \o <<" ", "H", "T", "T", "P", "/", "1", ".", "0", "\r", "\n">>
\* sprintf(host_fld, HOST_FLD_FMT, hostname, port)
HOST_FLD(h, p) == <<"H", "o", "s", "t", ":", " ">> \o h \o <<"U+FF1A">> \o p \o <<"\r", "\n">>
USER_AGENT_FLD ==
    <<"U", "s", "e", "r", "-", "A", "g", "e", "n", "t", ":", " ", "M", "o",
          "z", "i", "l", "l", "a", "/", "5", ".", "0", " ", "(", "X", "1", "1",
          ";", " ", "L", "i", "n", "u", "x", " ", "x", "8", "6", "_", "6", "4",
          ";", " ", "r", "v", ":", "1", "0", ".", "0", ".", "3", ")", " ", "G",
          "e", "c", "k", "o", "/", "2", "0", "1", "2", "0", "3", "0", "5", " ",
          "F", "i", "r", "e", "f", "o", "x", "/", "1", "0", ".", "0", ".", "3",
          "\r", "\n">>
CONNECTION_FLD ==
    <<"C", "o", "n", "n", "e", "c", "t", "i", "o", "n", ":", " ", "c", "l",
          "o", "s", "e", "\r", "\n">>
PROXY_CONNECTION_FLD ==
    <<"P", "r", "o", "x", "y", "-", "C", "o", "n", "n", "e", "c", "t", "i",
          "o", "n", ":", " ", "c", "l", "o", "s", "e", "\r", "\n">>
BLANK_LINE == <<"\r", "\n">>

\* the lines a client sends
ClientLines == {
    <<"H", "o", "s", "t", ":", " ", "b", "\r", "\n">>,
    <<"h", "O", "S", "T", ":", "c", "\r", "\n">>,
    <<"U", "s", "e", "r", "-", "A", "g", "e", "n", "t", ":", " ", "x", "\r",
      "\n">>,
    <<"c", "o", "n", "n", "e", "c", "t", "i", "o", "n", ":", " ", "k", "\r",
      "\n">>,
    <<"P", "r", "o", "x", "y", "-", "C", "o", "n", "n", "e", "c", "t", "i",
      "o", "n", ":", " ", "k", "\r", "\n">>,
    <<"A", "c", "c", "e", "p", "t", ":", " ", "y", "\r", "\n">>,
    <<"X", "-", "H", "o", "s", "t", ":", " ", "q", "\r", "\n">> }

\* what the array other_flds holds when set_request_header is entered: it is
\* never initialised, so its bytes are what the stack held there before,
\* nothing (a zero first byte) or the text an earlier call on a reused
\* thread stack left in the same place
StaleStack == {
    <<>>,
    <<"C", "o", "o", "k", "i", "e", ":", " ", "s", "\r", "\n">>,
    <<"C", "o", "o">> }

\* strncasecmp(a, b, n) = 0
strncasecmp_eq(a, b, n) ==
    LET la == IF Len(a) < n THEN Len(a) ELSE n
        lb == IF Len(b) < n THEN Len(b) ELSE n
    IN  /\ la = lb
        /\ \A i \in 1..la : ToLower(a[i]) = ToLower(b[i])

HasPrefix(l, fld) == strncasecmp_eq(l, fld, Len(fld))

\* the test for the fields the proxy sets itself
DroppedField(l) ==
    \/ HasPrefix(l, <<"U", "s", "e", "r", "-", "A", "g", "e", "n", "t", ":">>)
    \/ HasPrefix(l, <<"C", "o", "n", "n", "e", "c", "t", "i", "o", "n", ":">>)
    \/ HasPrefix(l, <<"P", "r", "o", "x", "y", "-", "C", "o", "n", "n", "e", "c", "t", "i",
      "o", "n", ":">>)

VARIABLES
    hpc,          \* where set_request_header stands
    host_fld,     \* its buffers
    other_flds,
    request_hdr,  \* the block handed back
    hdr_in,       \* history: the lines read from the client
    hdr_ret       \* its return value

hdrVars == <<hpc, host_fld, other_flds, request_hdr, hdr_in, hdr_ret>>

HdrStart ==
    /\ host_fld = <<>>
    /\ other_flds = <<>>
    /\ request_hdr = <<>>
    /\ hdr_in = <<>>
    /\ hdr_ret = -1

\* entry: the two sprintf calls; other_flds is declared and left as it is
HdrEnter(stale) ==
    /\ hpc = "enter"
    /\ host_fld' = HOST_FLD(HDR_HOSTNAME, HDR_PORT)
    /\ other_flds' = stale
    /\ hpc' = "loop"
    /\ UNCHANGED <<request_hdr, hdr_in, hdr_ret>>

\* one turn of the loop on a line that is not the blank line
HdrLine(l) ==
    /\ hpc = "loop"
    /\ Len(hdr_in) < MaxHdrLines
    /\ ~strncasecmp_eq(l, BLANK_LINE, Len(BLANK_LINE))
    /\ hdr_in' = Append(hdr_in, l)
    /\ IF HasPrefix(l, <<"H", "o", "s", "t", ":">>)
       THEN host_fld' = l /\ UNCHANGED other_flds
       ELSE IF DroppedField(l)
            THEN UNCHANGED <<host_fld, other_flds>>
            ELSE other_flds' = other_flds \o l /\ UNCHANGED host_fld
    /\ UNCHANGED <<hpc, request_hdr, hdr_ret>>

\* read_line returns 0 or less: return 0
HdrReadFail ==
    /\ hpc = "loop"
    /\ hdr_ret' = 0
    /\ hpc' = "failed"
    /\ UNCHANGED <<host_fld, other_flds, request_hdr, hdr_in>>

\* the blank line ends the loop; the block is put together; return 1
HdrBlank ==
    /\ hpc = "loop"
    /\ strncasecmp_eq(BLANK_LINE, BLANK_LINE, Len(BLANK_LINE))
    /\ request_hdr' = REQUEST_LINE(REQUEST_LINE_PATH) \o host_fld \o USER_AGENT_FLD
                        \o other_flds \o CONNECTION_FLD \o PROXY_CONNECTION_FLD
                        \o BLANK_LINE
    /\ hdr_ret' = 1
    /\ hpc' = "done"
    /\ UNCHANGED <<host_fld, other_flds, hdr_in>>

\* ------------------------------------------------------------------------
\* create_server_fd: the loop over the candidate addresses. A candidate is
\* what the kernel will answer for it: socket fails, socket succeeds and
\* connect fails, or both succeed. socket returns the lowest descriptor
\* number not in use.
\* ------------------------------------------------------------------------
\* candidate addresses getaddrinfo hands back
MaxCands == 3

CandKinds == {"nosock", "noconn", "ok"}
CandLists == UNION { [1..n -> CandKinds] : n \in 1..MaxCands }

\* what the local server_fd holds before its first assignment
IndeterminateFds == {-1, 0}

VARIABLES
    cpc,             \* where create_server_fd stands
    cand_ai,         \* the candidate list
    curr_ai,         \* index of the current candidate; past the end is NULL
    conn_server_fd,  \* its local server_fd
    conn_return_cd,  \* its local return_cd
    socks,           \* descriptors created here and open: number and candidate
    tried,           \* history: the candidates for which socket was called
    freed,           \* history: the candidates released by freeaddrinfo
    conn_ret         \* the value returned

connVars == <<cpc, cand_ai, curr_ai, conn_server_fd, conn_return_cd, socks, tried,
              freed, conn_ret>>

ConnStart ==
    /\ cand_ai = <<>>
    /\ curr_ai = 0
    /\ conn_server_fd = -1
    /\ conn_return_cd = 0
    /\ socks = {}
    /\ tried = <<>>
    /\ freed = {}
    /\ conn_ret = 0

SockFds == {s.fd : s \in socks}
LowestSock == CHOOSE f \in 1..(MaxCands + 1) :
                 f \notin SockFds /\ \A g \in 1..(MaxCands + 1) : g \notin SockFds => f <= g

\* get_server_socket_address_candidates fails: return -1
ConnResolveFail ==
    /\ cpc = "resolve"
    /\ conn_ret' = -1
    /\ cpc' = "done"
    /\ UNCHANGED <<cand_ai, curr_ai, conn_server_fd, conn_return_cd, socks, tried, freed>>

\* it succeeds: return_cd is 0, the loop starts at the head of the list
ConnResolve ==
    /\ cpc = "resolve"
    /\ conn_return_cd' = 0
    /\ curr_ai' = 1
    /\ cpc' = "loop"
    /\ UNCHANGED <<cand_ai, conn_server_fd, socks, tried, freed, conn_ret>>

\* loop test passed; socket for the current candidate; -1 is the continue
ConnSocket ==
    /\ cpc = "loop"
    /\ curr_ai <= Len(cand_ai)
    /\ tried' = Append(tried, curr_ai)
    /\ IF cand_ai[curr_ai] = "nosock"
       THEN /\ conn_server_fd' = -1
            /\ curr_ai' = curr_ai + 1
            /\ UNCHANGED <<socks, cpc>>
       ELSE /\ conn_server_fd' = LowestSock
            /\ socks' = socks \cup {[fd |-> LowestSock, cand |-> curr_ai]}
            /\ cpc' = "connect"
            /\ UNCHANGED curr_ai
    /\ UNCHANGED <<cand_ai, conn_return_cd, freed, conn_ret>>

\* connect; 0 is the break
ConnConnect ==
    /\ cpc = "connect"
    /\ IF cand_ai[curr_ai] = "ok"
       THEN conn_return_cd' = 0 /\ cpc' = "after"
       ELSE conn_return_cd' = -1 /\ cpc' = "close"
    /\ UNCHANGED <<cand_ai, curr_ai, conn_server_fd, socks, tried, freed, conn_ret>>

\* the loop without its close( server_fd )
ConnClose_KeepsSocket ==
    /\ cpc = "close"
    /\ curr_ai' = curr_ai + 1
    /\ cpc' = "loop"
    /\ UNCHANGED <<cand_ai, conn_server_fd, conn_return_cd, socks, tried, freed, conn_ret>>

\* close( server_fd ) after a failed connect, then the next candidate
ConnClose ==
    /\ cpc = "close"
    /\ socks' = {s \in socks : s.fd # conn_server_fd}
    /\ curr_ai' = curr_ai + 1
    /\ cpc' = "loop"
    /\ UNCHANGED <<cand_ai, conn_server_fd, conn_return_cd, tried, freed, conn_ret>>

\* after the loop: freeaddrinfo(curr_ai), then -1 if return_cd < 0 and
\* server_fd otherwise
ConnReturn ==
    /\ \/ cpc = "after"
       \/ cpc = "loop" /\ curr_ai > Len(cand_ai)
    /\ freed' = curr_ai..Len(cand_ai)
    /\ conn_ret' = IF conn_return_cd < 0 THEN -1 ELSE conn_server_fd
    /\ cpc' = "done"
    /\ UNCHANGED <<cand_ai, curr_ai, conn_server_fd, conn_return_cd, socks, tried>>

\* ------------------------------------------------------------------------
\* read_line on the request line, byte by byte, and what handle_request and
\* handle_request_thread do with its result. The client's bytes are given by
\* how many it sends before it stops (len) and where the first line feed is
\* (nl, 0 for none).
\* ------------------------------------------------------------------------
\* connections served one after the other
MaxLineConns == 2

LineLens == {0, 2, MAX_LINE, MAX_LINE + 1}
LineInputs == {in \in [len : LineLens, nl : LineLens] : in.nl <= in.len}
NoLine == [len |-> 0, nl |-> 0]

\* read_line's loop with n <= MAX_LINE in place of n < MAX_LINE
ReadMore_OffByOne(k) == k <= MAX_LINE

\* } while ( n < MAX_LINE );
ReadMore(k) == k < MAX_LINE

error_read(k) == k = 0 \/ k < 0

VARIABLES
    lpc,         \* where the worker on the connection stands
    lin,         \* what the client sends
    line_n,           \* read_line's count of bytes read
    bf_top,      \* history: the highest index of the line buffer stored to, -1 for none
    line_ret,    \* read_line's return value
    lacted,      \* history: the worker went on past the error_read test
    lconn,       \* connections accepted
    ldrops       \* history: connections dropped on a line without line feed

lineVars == <<lpc, lin, line_n, bf_top, line_ret, lacted, lconn, ldrops>>

LineStart ==
    /\ lin = NoLine
    /\ line_n = 0
    /\ bf_top = -1
    /\ line_ret = 0
    /\ lacted = FALSE
    /\ lconn = 0
    /\ ldrops = 0

\* no line feed among the first MAX_LINE bytes, and that many are sent
Overlong(in) == in.len >= MAX_LINE /\ (in.nl = 0 \/ in.nl > MAX_LINE)

\* accept, thread creation, handle_request up to the call of read_line
LineAccept(in) ==
    /\ lpc = "idle"
    /\ lconn < MaxLineConns
    /\ lconn' = lconn + 1
    /\ lin' = in
    /\ line_n' = 0
    /\ bf_top' = -1
    /\ line_ret' = 0
    /\ lacted' = FALSE
    /\ lpc' = "read"
    /\ UNCHANGED ldrops

\* one turn of read_line's loop on a byte the client sent
LineReadByte ==
    /\ lpc = "read"
    /\ line_n < lin.len
    /\ bf_top' = IF line_n > bf_top THEN line_n ELSE bf_top
    /\ line_n' = line_n + 1
    /\ IF line_n + 1 = lin.nl
       THEN line_ret' = line_n + 1 /\ lpc' = "returned"
       ELSE IF ReadMore(line_n + 1)
            THEN UNCHANGED <<line_ret, lpc>>
            ELSE line_ret' = 0 /\ lpc' = "returned"
    /\ UNCHANGED <<lin, lacted, lconn, ldrops>>

\* one turn in which read returns 0 (the client has closed) or -1
LineReadEnd(returnval) ==
    /\ lpc = "read"
    /\ line_n >= lin.len
    /\ line_ret' = returnval
    /\ lpc' = "returned"
    /\ UNCHANGED <<lin, line_n, bf_top, lacted, lconn, ldrops>>

\* if ( error_read ( num_bytes ) ) { return; }
LineCheck ==
    /\ lpc = "returned"
    /\ IF error_read(line_ret)
       THEN /\ lpc' = "dropped"
            /\ ldrops' = IF Overlong(lin) THEN ldrops + 1 ELSE ldrops
            /\ UNCHANGED lacted
       ELSE /\ lpc' = "parsed"
            /\ lacted' = TRUE
            /\ UNCHANGED ldrops
    /\ UNCHANGED <<lin, line_n, bf_top, line_ret, lconn>>

\* the rest of the request, then close(client_fd) in handle_request_thread;
\* the dispatcher is back in accept
LineClose ==
    /\ lpc \in {"dropped", "parsed"}
    /\ lpc' = "idle"
    /\ UNCHANGED <<lin, line_n, bf_top, line_ret, lacted, lconn, ldrops>>

\* ------------------------------------------------------------------------
\* write_all(fd, bf, n). The buffer holds the bytes 1..n; fd_out is what the
\* descriptor has received. errno keeps its value from one call to the next
\* unless a call fails.
\* ------------------------------------------------------------------------
\* the longest buffer written
MaxWriteLen == 5

Errnos == {"none", "EINTR", "EPIPE"}
WriteBuf(k) == [i \in 1..k |-> i]

VARIABLES
    wa_pc,     \* where write_all stands
    wa_n,      \* its argument n
    bf,        \* its argument bf, as the offset into the caller's buffer
    w_tot,     \* bytes written in total
    w_cur,     \* what the last write returned
    errno,
    fd_out,    \* the bytes the descriptor has received, in order
    wa_ret     \* the value returned

writeVars == <<wa_pc, wa_n, bf, w_tot, w_cur, errno, fd_out, wa_ret>>

WriteStart ==
    /\ wa_n = 0
    /\ bf = 0
    /\ w_tot = 0
    /\ w_cur = 0
    /\ errno = "none"
    /\ fd_out = <<>>
    /\ wa_ret = 0

\* write takes k of the n - w_tot bytes at bf, but bf is left where it was
WaWrite_NoAdvance(k) ==
    /\ wa_pc = "loop"
    /\ w_tot < wa_n
    /\ k <= wa_n - w_tot
    /\ w_cur' = k
    /\ fd_out' = fd_out \o SubSeq(WriteBuf(wa_n), bf + 1, bf + k)
    /\ w_tot' = w_tot + k
    /\ UNCHANGED <<wa_pc, wa_n, bf, errno, wa_ret>>

\* write takes k of the n - w_tot bytes at bf; w_tot += w_cur; bf += w_cur
WaWrite(k) ==
    /\ wa_pc = "loop"
    /\ w_tot < wa_n
    /\ k <= wa_n - w_tot
    /\ w_cur' = k
    /\ fd_out' = fd_out \o SubSeq(WriteBuf(wa_n), bf + 1, bf + k)
    /\ w_tot' = w_tot + k
    /\ bf' = bf + k
    /\ UNCHANGED <<wa_pc, wa_n, errno, wa_ret>>

\* write is interrupted before any byte went out: -1 and EINTR; continue
WaWriteIntr ==
    /\ wa_pc = "loop"
    /\ w_tot < wa_n
    /\ w_cur' = -1
    /\ errno' = "EINTR"
    /\ UNCHANGED <<wa_pc, wa_n, bf, w_tot, fd_out, wa_ret>>

\* write fails for another reason: return -1
WaWriteError ==
    /\ wa_pc = "loop"
    /\ w_tot < wa_n
    /\ w_cur' = -1
    /\ errno' = "EPIPE"
    /\ wa_ret' = -1
    /\ wa_pc' = "done"
    /\ UNCHANGED <<wa_n, bf, w_tot, fd_out>>

\* write returns 0 and leaves errno alone; the test reads the errno of
\* some earlier call
WaWriteZero ==
    /\ wa_pc = "loop"
    /\ w_tot < wa_n
    /\ w_cur' = 0
    /\ IF errno = "EINTR"
       THEN UNCHANGED <<wa_pc, wa_ret>>
       ELSE wa_ret' = -1 /\ wa_pc' = "done"
    /\ UNCHANGED <<wa_n, bf, w_tot, errno, fd_out>>

\* the loop test fails: return w_tot
WaReturn ==
    /\ wa_pc = "loop"
    /\ ~(w_tot < wa_n)
    /\ wa_ret' = w_tot
    /\ wa_pc' = "done"
    /\ UNCHANGED <<wa_n, bf, w_tot, w_cur, errno, fd_out>>

\* ------------------------------------------------------------------------
\* set_request_header by the sizes of its buffers: how far each store
\* reaches into line, host_fld, other_flds and the caller's request_hdr,
\* each of MAX_LINE bytes. A client line is its kind and the number of bytes
\* read_line returned for it.
\* ------------------------------------------------------------------------
\* header lines read from the client before the blank line
MaxSizeLines == 2

\* bytes of a text: the code point U+FF1A takes three
RECURSIVE ByteLen(_)
ByteLen(s) ==
    IF s = <<>> THEN 0
    ELSE (IF Head(s) = "U+FF1A" THEN 3 ELSE 1) + ByteLen(Tail(s))

LineKinds == {"host", "dropped", "other"}
SizedLineLens == {16, 4096, MAX_LINE - 1, MAX_LINE}
NoTop == [line |-> -1, host_fld |-> -1, other_flds |-> -1, request_hdr |-> -1]

Max2(x, y) == IF x > y THEN x ELSE y

VARIABLES
    spc,          \* where set_request_header stands
    host_len,     \* strlen(host_fld)
    other_len,    \* strlen(other_flds)
    top,          \* history: per buffer, the highest index stored to
    nsized        \* lines read

sizeVars == <<spc, host_len, other_len, top, nsized>>

SizeStart ==
    /\ host_len = 0
    /\ other_len = 0
    /\ top = NoTop
    /\ nsized = 0

\* entry: sprintf of request_line and host_fld; other_flds taken as empty
SizeEnter ==
    /\ spc = "enter"
    /\ host_len' = ByteLen(HOST_FLD(HDR_HOSTNAME, HDR_PORT))
    /\ top' = [top EXCEPT !.host_fld = ByteLen(HOST_FLD(HDR_HOSTNAME, HDR_PORT))]
    /\ spc' = "loop"
    /\ UNCHANGED <<other_len, nsized>>

\* read_line returns return_cd for a line of this kind:
\* line[return_cd] = '\0', then strcpy to host_fld, or nothing, or strcat
\* to other_flds
SizeLine(kind, return_cd) ==
    /\ spc = "loop"
    /\ nsized < MaxSizeLines
    /\ nsized' = nsized + 1
    /\ CASE kind = "host" ->
              /\ host_len' = return_cd
              /\ top' = [top EXCEPT !.line = Max2(@, return_cd),
                                    !.host_fld = Max2(@, return_cd)]
              /\ UNCHANGED other_len
         [] kind = "dropped" ->
              /\ top' = [top EXCEPT !.line = Max2(@, return_cd)]
              /\ UNCHANGED <<host_len, other_len>>
         [] kind = "other" ->
              /\ other_len' = other_len + return_cd
              /\ top' = [top EXCEPT !.line = Max2(@, return_cd),
                                    !.other_flds = Max2(@, other_len + return_cd)]
              /\ UNCHANGED host_len
    /\ UNCHANGED spc

\* read_line returns 0 or less: return 0
SizeReadFail ==
    /\ spc = "loop"
    /\ spc' = "failed"
    /\ UNCHANGED <<host_len, other_len, top, nsized>>

\* the blank line: line[2] = '\0', break, and the seven strcat into request_hdr
SizeBlank ==
    /\ spc = "loop"
    /\ top' = [top EXCEPT
                 !.line = Max2(@, ByteLen(BLANK_LINE)),
                 !.request_hdr =
                     ByteLen(REQUEST_LINE(REQUEST_LINE_PATH)) + host_len
                     + ByteLen(USER_AGENT_FLD) + other_len + ByteLen(CONNECTION_FLD)
                     + ByteLen(PROXY_CONNECTION_FLD) + ByteLen(BLANK_LINE)]
    /\ spc' = "done"
    /\ UNCHANGED <<host_len, other_len, nsized>>

\* ------------------------------------------------------------------------
\* Specifications
\* ------------------------------------------------------------------------
vars == <<cacheVars, relayVars, keyVars, reqVars, hdrVars, connVars, lineVars,
          writeVars, sizeVars>>

\* the cache under concurrent workers
Init ==
    /\ CacheInit /\ rpc = "off" /\ RelayStart /\ kpc = "off" /\ KeyStart
    /\ wpc = [t \in Threads |-> "off"] /\ ReqStart
    /\ hpc = "off" /\ HdrStart
    /\ cpc = "off" /\ ConnStart
    /\ lpc = "off" /\ LineStart
    /\ wa_pc = "off" /\ WriteStart
    /\ spc = "off" /\ SizeStart

Next ==
    \/ \E w \in Workers, k \in Keys : LookupCall(w, k) /\ UNCHANGED <<relayVars, keyVars, reqVars, hdrVars, connVars, lineVars, writeVars, sizeVars>>
    \/ \E w \in Workers : LookupLock(w) /\ UNCHANGED <<relayVars, keyVars, reqVars, hdrVars, connVars, lineVars, writeVars, sizeVars>>
    \/ \E w \in Workers : LookupScan(w) /\ UNCHANGED <<relayVars, keyVars, reqVars, hdrVars, connVars, lineVars, writeVars, sizeVars>>
    \/ \E w \in Workers : PromoteTest(w) /\ UNCHANGED <<relayVars, keyVars, reqVars, hdrVars, connVars, lineVars, writeVars, sizeVars>>
    \/ \E w \in Workers : PromoteStep(w) /\ UNCHANGED <<relayVars, keyVars, reqVars, hdrVars, connVars, lineVars, writeVars, sizeVars>>
    \/ \E w \in Workers : LookupHit(w) /\ UNCHANGED <<relayVars, keyVars, reqVars, hdrVars, connVars, lineVars, writeVars, sizeVars>>
    \/ \E w \in Workers, o \in Objs : InsertCall(w, o) /\ UNCHANGED <<relayVars, keyVars, reqVars, hdrVars, connVars, lineVars, writeVars, sizeVars>>
    \/ \E w \in Workers : InsertLock(w) /\ UNCHANGED <<relayVars, keyVars, reqVars, hdrVars, connVars, lineVars, writeVars, sizeVars>>
    \/ \E w \in Workers : InsertEvict(w) /\ UNCHANGED <<relayVars, keyVars, reqVars, hdrVars, connVars, lineVars, writeVars, sizeVars>>
    \/ \E w \in Workers : InsertAllocFail(w) /\ UNCHANGED <<relayVars, keyVars, reqVars, hdrVars, connVars, lineVars, writeVars, sizeVars>>
    \/ \E w \in Workers, n \in CellIds : InsertDone(w, n) /\ UNCHANGED <<relayVars, keyVars, reqVars, hdrVars, connVars, lineVars, writeVars, sizeVars>>
    \/ \E w \in Workers : WorkerReturn(w) /\ UNCHANGED <<relayVars, keyVars, reqVars, hdrVars, connVars, lineVars, writeVars, sizeVars>>

Spec == Init /\ [][Next]_vars

\* a thread inside cache_insert (holding the write lock) keeps being
\* scheduled: its next statement is eventually executed
InsertProgress(w) ==
    /\ \/ InsertEvict(w)
       \/ InsertAllocFail(w)
       \/ \E n \in CellIds : InsertDone(w, n)
    /\ UNCHANGED <<relayVars, keyVars, reqVars, hdrVars, connVars, lineVars, writeVars, sizeVars>>

InsertFairSpec ==
    Init /\ [][Next]_vars /\ \A w \in Workers : WF_vars(InsertProgress(w))

\* one worker relaying one response
RelayInit ==
    /\ CacheInit /\ cache = cache_init /\ rpc = "read" /\ RelayStart
    /\ kpc = "off" /\ KeyStart
    /\ wpc = [t \in Threads |-> "off"] /\ ReqStart
    /\ hpc = "off" /\ HdrStart
    /\ cpc = "off" /\ ConnStart
    /\ lpc = "off" /\ LineStart
    /\ wa_pc = "off" /\ WriteStart
    /\ spc = "off" /\ SizeStart

RelayNext ==
    \/ \E n \in ChunkSizes : RelayRead(n) /\ UNCHANGED <<cacheVars, keyVars, reqVars, hdrVars, connVars, lineVars, writeVars, sizeVars>>
    \/ RelayReadEOF /\ UNCHANGED <<cacheVars, keyVars, reqVars, hdrVars, connVars, lineVars, writeVars, sizeVars>>
    \/ RelayReadError /\ UNCHANGED <<cacheVars, keyVars, reqVars, hdrVars, connVars, lineVars, writeVars, sizeVars>>
    \/ RelayWrite /\ UNCHANGED <<cacheVars, keyVars, reqVars, hdrVars, connVars, lineVars, writeVars, sizeVars>>
    \/ RelayWriteError /\ UNCHANGED <<cacheVars, keyVars, reqVars, hdrVars, connVars, lineVars, writeVars, sizeVars>>
    \/ RelayStage /\ UNCHANGED <<cacheVars, keyVars, reqVars, hdrVars, connVars, lineVars, writeVars, sizeVars>>
    \/ RelayAdmit /\ UNCHANGED <<cacheVars, keyVars, reqVars, hdrVars, connVars, lineVars, writeVars, sizeVars>>

RelaySpec == RelayInit /\ [][RelayNext]_vars

\* one worker serving requests one after the other, seen through its cache keys
KeyInit ==
    /\ CacheInit /\ cache = cache_init /\ rpc = "off" /\ RelayStart
    /\ kpc = "idle" /\ KeyStart
    /\ wpc = [t \in Threads |-> "off"] /\ ReqStart
    /\ hpc = "off" /\ HdrStart
    /\ cpc = "off" /\ ConnStart
    /\ lpc = "off" /\ LineStart
    /\ wa_pc = "off" /\ WriteStart
    /\ spc = "off" /\ SizeStart

KeyNext ==
    \/ \E u \in URIs : KeyParse(u) /\ UNCHANGED <<cacheVars, relayVars, reqVars, hdrVars, connVars, lineVars, writeVars, sizeVars>>
    \/ \E u \in BadURIs, r \in WildReads :
          KeyParseNoSlashes(u, r) /\ UNCHANGED <<cacheVars, relayVars, reqVars, hdrVars, connVars, lineVars, writeVars, sizeVars>>
    \/ KeyCompose /\ UNCHANGED <<cacheVars, relayVars, reqVars, hdrVars, connVars, lineVars, writeVars, sizeVars>>
    \/ KeyHit /\ UNCHANGED <<cacheVars, relayVars, reqVars, hdrVars, connVars, lineVars, writeVars, sizeVars>>
    \/ KeyMiss /\ UNCHANGED <<cacheVars, relayVars, reqVars, hdrVars, connVars, lineVars, writeVars, sizeVars>>
    \/ KeyAdmit /\ UNCHANGED <<cacheVars, relayVars, reqVars, hdrVars, connVars, lineVars, writeVars, sizeVars>>
    \/ KeyNoAdmit /\ UNCHANGED <<cacheVars, relayVars, reqVars, hdrVars, connVars, lineVars, writeVars, sizeVars>>

KeySpec == KeyInit /\ [][KeyNext]_vars

\* the dispatcher and its worker threads, seen through their descriptors
ReqInit ==
    /\ CacheInit /\ cache = cache_init /\ rpc = "off" /\ RelayStart
    /\ kpc = "off" /\ KeyStart
    /\ wpc = [t \in Threads |-> "free"] /\ ReqStart
    /\ hpc = "off" /\ HdrStart
    /\ cpc = "off" /\ ConnStart
    /\ lpc = "off" /\ LineStart
    /\ wa_pc = "off" /\ WriteStart
    /\ spc = "off" /\ SizeStart

ReqNext ==
    \/ \E t \in Threads : Accept(t) /\ UNCHANGED <<cacheVars, relayVars, keyVars, hdrVars, connVars, lineVars, writeVars, sizeVars>>
    \/ \E t \in Threads, m \in Methods :
          ReadRequestLine(t, m) /\ UNCHANGED <<cacheVars, relayVars, keyVars, hdrVars, connVars, lineVars, writeVars, sizeVars>>
    \/ \E t \in Threads : ReadRequestLineFail(t) /\ UNCHANGED <<cacheVars, relayVars, keyVars, hdrVars, connVars, lineVars, writeVars, sizeVars>>
    \/ \E t \in Threads : MethodCheck(t) /\ UNCHANGED <<cacheVars, relayVars, keyVars, hdrVars, connVars, lineVars, writeVars, sizeVars>>
    \/ \E t \in Threads : CacheHit(t) /\ UNCHANGED <<cacheVars, relayVars, keyVars, hdrVars, connVars, lineVars, writeVars, sizeVars>>
    \/ \E t \in Threads : CacheMiss(t) /\ UNCHANGED <<cacheVars, relayVars, keyVars, hdrVars, connVars, lineVars, writeVars, sizeVars>>
    \/ \E t \in Threads, end \in HeaderEnds :
          SetRequestHeader(t, end) /\ UNCHANGED <<cacheVars, relayVars, keyVars, hdrVars, connVars, lineVars, writeVars, sizeVars>>
    \/ \E t \in Threads : ConnectOk(t) /\ UNCHANGED <<cacheVars, relayVars, keyVars, hdrVars, connVars, lineVars, writeVars, sizeVars>>
    \/ \E t \in Threads : ConnectFail(t) /\ UNCHANGED <<cacheVars, relayVars, keyVars, hdrVars, connVars, lineVars, writeVars, sizeVars>>
    \/ \E t \in Threads : SendRequestOk(t) /\ UNCHANGED <<cacheVars, relayVars, keyVars, hdrVars, connVars, lineVars, writeVars, sizeVars>>
    \/ \E t \in Threads : SendRequestFail(t) /\ UNCHANGED <<cacheVars, relayVars, keyVars, hdrVars, connVars, lineVars, writeVars, sizeVars>>
    \/ \E t \in Threads : RelayServerReadFail(t) /\ UNCHANGED <<cacheVars, relayVars, keyVars, hdrVars, connVars, lineVars, writeVars, sizeVars>>
    \/ \E t \in Threads : RelayClientWriteFail(t) /\ UNCHANGED <<cacheVars, relayVars, keyVars, hdrVars, connVars, lineVars, writeVars, sizeVars>>
    \/ \E t \in Threads, a \in BOOLEAN :
          RelayEnd(t, a) /\ UNCHANGED <<cacheVars, relayVars, keyVars, hdrVars, connVars, lineVars, writeVars, sizeVars>>
    \/ \E t \in Threads : ThreadClose(t) /\ UNCHANGED <<cacheVars, relayVars, keyVars, hdrVars, connVars, lineVars, writeVars, sizeVars>>

ReqSpec == ReqInit /\ [][ReqNext]_vars

\* one call of set_request_header
HdrInit ==
    /\ CacheInit /\ cache = cache_init /\ rpc = "off" /\ RelayStart
    /\ kpc = "off" /\ KeyStart
    /\ wpc = [t \in Threads |-> "off"] /\ ReqStart
    /\ hpc = "enter" /\ HdrStart
    /\ cpc = "off" /\ ConnStart
    /\ lpc = "off" /\ LineStart
    /\ wa_pc = "off" /\ WriteStart
    /\ spc = "off" /\ SizeStart

HdrNext ==
    \/ \E stale \in StaleStack :
          HdrEnter(stale) /\ UNCHANGED <<cacheVars, relayVars, keyVars, reqVars, connVars, lineVars, writeVars, sizeVars>>
    \/ \E l \in ClientLines :
          HdrLine(l) /\ UNCHANGED <<cacheVars, relayVars, keyVars, reqVars, connVars, lineVars, writeVars, sizeVars>>
    \/ HdrReadFail /\ UNCHANGED <<cacheVars, relayVars, keyVars, reqVars, connVars, lineVars, writeVars, sizeVars>>
    \/ HdrBlank /\ UNCHANGED <<cacheVars, relayVars, keyVars, reqVars, connVars, lineVars, writeVars, sizeVars>>

HdrSpec == HdrInit /\ [][HdrNext]_vars

\* one call of create_server_fd, for every list of candidates
ConnInit ==
    /\ CacheInit /\ cache = cache_init /\ rpc = "off" /\ RelayStart
    /\ kpc = "off" /\ KeyStart
    /\ wpc = [t \in Threads |-> "off"] /\ ReqStart
    /\ hpc = "off" /\ HdrStart
    /\ cpc = "resolve"
    /\ cand_ai \in CandLists
    /\ curr_ai = 0
    /\ conn_server_fd \in IndeterminateFds
    /\ conn_return_cd = 0
    /\ socks = {}
    /\ tried = <<>>
    /\ freed = {}
    /\ conn_ret = 0
    /\ lpc = "off" /\ LineStart
    /\ wa_pc = "off" /\ WriteStart
    /\ spc = "off" /\ SizeStart

ConnNext ==
    \/ ConnResolveFail /\ UNCHANGED <<cacheVars, relayVars, keyVars, reqVars, hdrVars, lineVars, writeVars, sizeVars>>
    \/ ConnResolve /\ UNCHANGED <<cacheVars, relayVars, keyVars, reqVars, hdrVars, lineVars, writeVars, sizeVars>>
    \/ ConnSocket /\ UNCHANGED <<cacheVars, relayVars, keyVars, reqVars, hdrVars, lineVars, writeVars, sizeVars>>
    \/ ConnConnect /\ UNCHANGED <<cacheVars, relayVars, keyVars, reqVars, hdrVars, lineVars, writeVars, sizeVars>>
    \/ ConnClose /\ UNCHANGED <<cacheVars, relayVars, keyVars, reqVars, hdrVars, lineVars, writeVars, sizeVars>>
    \/ ConnReturn /\ UNCHANGED <<cacheVars, relayVars, keyVars, reqVars, hdrVars, lineVars, writeVars, sizeVars>>

ConnSpec == ConnInit /\ [][ConnNext]_vars

\* connections whose request line is read byte by byte
LineInit ==
    /\ CacheInit /\ cache = cache_init /\ rpc = "off" /\ RelayStart
    /\ kpc = "off" /\ KeyStart
    /\ wpc = [t \in Threads |-> "off"] /\ ReqStart
    /\ hpc = "off" /\ HdrStart
    /\ cpc = "off" /\ ConnStart
    /\ lpc = "idle" /\ LineStart
    /\ wa_pc = "off" /\ WriteStart
    /\ spc = "off" /\ SizeStart

LineNext ==
    \/ \E in \in LineInputs :
          LineAccept(in) /\ UNCHANGED <<cacheVars, relayVars, keyVars, reqVars, hdrVars, connVars, writeVars, sizeVars>>
    \/ LineReadByte /\ UNCHANGED <<cacheVars, relayVars, keyVars, reqVars, hdrVars, connVars, writeVars, sizeVars>>
    \/ \E returnval \in {0, -1} :
          LineReadEnd(returnval) /\ UNCHANGED <<cacheVars, relayVars, keyVars, reqVars, hdrVars, connVars, writeVars, sizeVars>>
    \/ LineCheck /\ UNCHANGED <<cacheVars, relayVars, keyVars, reqVars, hdrVars, connVars, writeVars, sizeVars>>
    \/ LineClose /\ UNCHANGED <<cacheVars, relayVars, keyVars, reqVars, hdrVars, connVars, writeVars, sizeVars>>

LineSpec == LineInit /\ [][LineNext]_vars

\* one call of write_all, for every n and every errno left by earlier calls
WriteInit ==
    /\ CacheInit /\ cache = cache_init /\ rpc = "off" /\ RelayStart
    /\ kpc = "off" /\ KeyStart
    /\ wpc = [t \in Threads |-> "off"] /\ ReqStart
    /\ hpc = "off" /\ HdrStart
    /\ cpc = "off" /\ ConnStart
    /\ lpc = "off" /\ LineStart
    /\ wa_pc = "loop"
    /\ wa_n \in 0..MaxWriteLen
    /\ errno \in Errnos
    /\ bf = 0
    /\ w_tot = 0
    /\ w_cur = 0
    /\ fd_out = <<>>
    /\ wa_ret = 0
    /\ spc = "off" /\ SizeStart

WriteNext ==
    \/ \E k \in 1..MaxWriteLen : WaWrite(k) /\ UNCHANGED <<cacheVars, relayVars, keyVars, reqVars, hdrVars, connVars, lineVars, sizeVars>>
    \/ WaWriteIntr /\ UNCHANGED <<cacheVars, relayVars, keyVars, reqVars, hdrVars, connVars, lineVars, sizeVars>>
    \/ WaWriteError /\ UNCHANGED <<cacheVars, relayVars, keyVars, reqVars, hdrVars, connVars, lineVars, sizeVars>>
    \/ WaWriteZero /\ UNCHANGED <<cacheVars, relayVars, keyVars, reqVars, hdrVars, connVars, lineVars, sizeVars>>
    \/ WaReturn /\ UNCHANGED <<cacheVars, relayVars, keyVars, reqVars, hdrVars, connVars, lineVars, sizeVars>>

\* a step that moves the call on: bytes go out, the write fails for good, or
\* write_all returns
WaProgress ==
    /\ \/ \E k \in 1..MaxWriteLen : WaWrite(k)
       \/ WaWriteError
       \/ WaReturn
    /\ UNCHANGED <<cacheVars, relayVars, keyVars, reqVars, hdrVars, connVars, lineVars, sizeVars>>

\* the writes eventually take bytes or fail for good
WriteSpec == WriteInit /\ [][WriteNext]_vars /\ WF_vars(WaProgress)

\* one call of set_request_header, by sizes
SizeInit ==
    /\ CacheInit /\ cache = cache_init /\ rpc = "off" /\ RelayStart
    /\ kpc = "off" /\ KeyStart
    /\ wpc = [t \in Threads |-> "off"] /\ ReqStart
    /\ hpc = "off" /\ HdrStart
    /\ cpc = "off" /\ ConnStart
    /\ lpc = "off" /\ LineStart
    /\ wa_pc = "off" /\ WriteStart
    /\ spc = "enter" /\ SizeStart

SizeNext ==
    \/ SizeEnter /\ UNCHANGED <<cacheVars, relayVars, keyVars, reqVars, hdrVars, connVars, lineVars, writeVars>>
    \/ \E kind \in LineKinds, return_cd \in SizedLineLens :
          SizeLine(kind, return_cd) /\ UNCHANGED <<cacheVars, relayVars, keyVars, reqVars, hdrVars, connVars, lineVars, writeVars>>
    \/ SizeReadFail /\ UNCHANGED <<cacheVars, relayVars, keyVars, reqVars, hdrVars, connVars, lineVars, writeVars>>
    \/ SizeBlank /\ UNCHANGED <<cacheVars, relayVars, keyVars, reqVars, hdrVars, connVars, lineVars, writeVars>>

SizeSpec == SizeInit /\ [][SizeNext]_vars

\* ------------------------------------------------------------------------
\* Properties of the cache
\* ------------------------------------------------------------------------
\* the recency list is a valid doubly-linked list from head to tail
ValidList(c) ==
    LET l == FromHead(c)
    IN /\ (c.head = NULL) = (c.tail = NULL)
       /\ c.head # NULL => c.ent[c.head].prev = NULL
       /\ c.tail # NULL => c.ent[c.tail].next = NULL
       /\ c.tail # NULL => (l # <<>> /\ l[Len(l)] = c.tail)
       /\ \A i \in 1..Len(l) :
             /\ c.ent[l[i]].prev # NULL => c.ent[c.ent[l[i]].prev].next = l[i]
             /\ c.ent[l[i]].next # NULL => c.ent[c.ent[l[i]].next].prev = l[i]
             /\ i > 1 => c.ent[l[i]].prev = l[i - 1]

LiveCells(c) == {n \in CellIds : c.ent[n].st = "live"}
KeysInList(c) == {c.ent[n].key : n \in ListCells(c)}

\* the pc values at which a worker is inside a cache operation, holding the lock
InsideCache == {"scan", "mtf0", "mtf", "unlock", "evict", "alloc"}

\* The counters are size_t; they never go below zero in the states reached, so
\* no subtraction wraps, and no cell on the list or at the tail has been freed.
CountersNonNegative == cache.total_size >= 0 /\ cache.num_entries >= 0
NoDanglingEntry ==
    /\ \A n \in ListCells(cache) : cache.ent[n].st = "live"
    /\ cache.tail # NULL => cache.ent[cache.tail].st = "live"
\* What the unlocked promotions leave behind. Both are VIOLATED: after two
\* lookups promoted their entries concurrently and released the lock, the list
\* is not a valid list and the counters do not count it, with no lock held.
ListValidWhenUnlocked == (writer = 0 /\ readers = {}) => ValidList(cache)
CountersMatchWhenUnlocked ==
    (writer = 0 /\ readers = {}) =>
        /\ cache.total_size = SumSizes(cache, FromHead(cache))
        /\ cache.num_entries = Len(FromHead(cache))

\* the eviction loop never runs on an empty list
NoSpin ==
    \A w \in Workers :
        ~(pc[w] = "evict" /\ EvictCond(cache, SizeOf(val[w])) /\ cache.tail = NULL)

\* C1: whenever no thread holds the write lock, the recency list is a valid
\* doubly-linked list (head.prev and tail.next are null, the links of every
\* entry reachable from head agree, tail is the last entry reachable from head).
C1_ListValidWithoutWriter == writer = 0 => ValidList(cache)

\* C2: a worker rewrites list linkage (runs the statements of move_to_front)
\* only while it holds the write lock, and then no other worker is inside any
\* cache operation.
C2_PromotionExclusive ==
    \A w \in Workers :
        pc[w] = "mtf" =>
            /\ writer = w
            /\ \A v \in Workers \ {w} : pc[v] \notin InsideCache

\* C3: keys are unique over the entries of the cache: workers that missed on
\* the same key and each admitted a response leave one entry for the key.
C3_KeysUnique ==
    writer = 0 =>
        \A m, n \in LiveCells(cache) :
            cache.ent[m].key = cache.ent[n].key => m = n

\* C4: whenever the write lock is not held, total_size is at most
\* MAX_CACHE_SIZE.
C4_TotalSizeBounded == writer = 0 => cache.total_size <= MAX_CACHE_SIZE

\* an admit of a MAX_OBJECT_SIZE object into a cache of ten such objects has
\* completed, and a further such object would not fit by size
C4_Witness ==
    /\ writer = 0
    /\ cache.total_size + MAX_OBJECT_SIZE > MAX_CACHE_SIZE
    /\ \E w \in Workers : pc[w] = "inserted" /\ nevict[w] > 0
                          /\ SizeOf(val[w]) = MAX_OBJECT_SIZE

\* C5: whenever the write lock is not held, total_size is the sum of data_size
\* over the entries reachable from head and num_entries is their number.
C5_CountersMatchList ==
    writer = 0 =>
        /\ cache.total_size = SumSizes(cache, FromHead(cache))
        /\ cache.num_entries = Len(FromHead(cache))

\* C6: a cache_insert call with data_size > MAX_OBJECT_SIZE returns without
\* taking the lock and leaves the cache as it was; no worker past the size
\* test carries a larger object, and every entry of the cache has
\* data_size <= MAX_OBJECT_SIZE.
C6_OversizeAdmitNoOp ==
    /\ [](\A w \in Workers :
            pc[w] \in {"wrlock", "evict", "alloc", "inserted", "failed"}
                => SizeOf(val[w]) <= MAX_OBJECT_SIZE)
    /\ [](\A n \in LiveCells(cache) : cache.ent[n].data_size <= MAX_OBJECT_SIZE)
    /\ [][\A w \in Workers :
            (pc[w] = "missed" /\ val'[w] \in Objs
                /\ SizeOf(val'[w]) > MAX_OBJECT_SIZE)
            => /\ pc'[w] = "rejected"
               /\ cache' = cache
               /\ writer' = writer
               /\ readers' = readers]_vars

\* cache_insert has returned -1 for an object of MAX_OBJECT_SIZE + 1 bytes
\* while the cache holds ten entries
C6_Witness ==
    \E w \in Workers :
        /\ pc[w] = "rejected"
        /\ SizeOf(val[w]) > MAX_OBJECT_SIZE
        /\ cache.num_entries = ENTRY_LIMIT

\* C7: a lookup of a key that is on the list does not end in a miss, and a
\* lookup of the key of the last admit, with no admit since, hits and copies
\* out the admitted bytes and length.
C7_LookupFindsAdmitted ==
    \A w \in Workers :
        /\ (pc[w] = "scan" /\ cur[w] = NULL) => key[w] \notin KeysInList(cache)
        /\ (w \in readers /\ lastAdmit.key # 0 /\ key[w] = lastAdmit.key) =>
              /\ pc[w] = "scan" => cur[w] # NULL
              /\ pc[w] \in {"mtf0", "mtf", "unlock"} =>
                    buf[w] = [data |-> lastAdmit.data,
                              size |-> SizeOf(lastAdmit.data)]

\* C8: when a lookup that hit is about to release the lock, the entry it hit
\* is at head and, in a cache of more than one entry, is not the tail that the
\* next eviction removes.
C8_HitEntryAtHead ==
    \A w \in Workers :
        pc[w] = "unlock" =>
            /\ cache.head = cur[w]
            /\ cache.num_entries > 1 => cache.tail # cur[w]

\* C9: an admit whose bytes fit in the remaining capacity
\* (total_size + data_size <= MAX_CACHE_SIZE when it takes the lock) evicts no
\* entry, whatever the number of entries cached.
C9_NoEvictionWhenFits ==
    \A w \in Workers :
        (pc[w] \in {"evict", "alloc", "inserted", "failed"}
            /\ pre[w].total_size + SizeOf(val[w]) <= MAX_CACHE_SIZE)
        => nevict[w] = 0

\* C9, amended: an admit whose bytes fit in the remaining capacity evicts no
\* entry when fewer than ten entries are cached.
C9_NoEvictionWhenFitsBelowLimit ==
    \A w \in Workers :
        (pc[w] \in {"evict", "alloc", "inserted", "failed"}
            /\ pre[w].total_size + SizeOf(val[w]) <= MAX_CACHE_SIZE
            /\ pre[w].num_entries < ENTRY_LIMIT)
        => nevict[w] = 0

\* an admit into a cache of nine entries has completed without an eviction
C9_Witness ==
    \E w \in Workers :
        /\ pc[w] = "inserted"
        /\ pre[w].num_entries = ENTRY_LIMIT - 1
        /\ nevict[w] = 0
        /\ cache.num_entries = ENTRY_LIMIT

\* ------------------------------------------------------------------------
\* Properties of the relay loop
\* ------------------------------------------------------------------------
\* the whole response, as the staging buffer holds it when it is complete
WholeResponse == IF rcvd = 0 THEN <<>> ELSE << [off |-> 0, len |-> rcvd] >>

\* C10: cache_insert is called only with the complete response in order, and
\* never when the origin produced more than MAX_OBJECT_SIZE bytes.
C10_AdmitOnlyComplete ==
    admitted.called =>
        /\ rcvd <= MAX_OBJECT_SIZE
        /\ admitted.data = WholeResponse
        /\ admitted.data_size = rcvd

\* ------------------------------------------------------------------------
\* Properties of the lock and of the failure path of cache_insert
\* ------------------------------------------------------------------------
\* C12: no state is reachable in which an admit holds cache_lock together with
\* any other holder: while a worker holds the write lock there is no reader and
\* no other worker is between lock and unlock. (That two lookups hold the lock
\* at once is the reachable state C12_Witness.)
C12_AdmitHoldsLockAlone ==
    \A w \in Workers :
        writer = w =>
            /\ readers = {}
            /\ pc[w] \in {"evict", "alloc"}
            /\ \A v \in Workers \ {w} : pc[v] \notin InsideCache

\* two different workers are inside cache_lookup, both holding cache_lock
C12_Witness ==
    \E w, v \in Workers :
        /\ w # v
        /\ {w, v} \subseteq readers
        /\ pc[w] \in {"scan", "mtf0", "mtf", "unlock"}
        /\ pc[v] \in {"scan", "mtf0", "mtf", "unlock"}

\* C13: when an allocation fails during cache_insert, the cache is as it was
\* before the call. The call holds the write lock from its eviction loop to
\* the failure, so the cache it leaves differs from the cache it found exactly
\* by the entries it evicted: it must have evicted none.
C13_AllocFailLeavesCache ==
    \A w \in Workers : pc[w] = "failed" => nevict[w] = 0

\* ------------------------------------------------------------------------
\* Properties of the relay loop: forwarding, and when the admit happens
\* ------------------------------------------------------------------------
\* C16: with no I/O failure, the bytes written to the client are the bytes
\* read from the upstream connection, in order, nothing added or dropped:
\* after every write, and at the end of the relay, client_out is the whole
\* response received so far, whatever its length.
C16_ClientGetsUpstreamBytes ==
    rpc \in {"stage", "read", "eof", "done"} => client_out = WholeResponse

\* the relay of a response larger than MAX_OBJECT_SIZE has ended at EOF
C16_Witness ==
    /\ rpc = "done"
    /\ rcvd > MAX_OBJECT_SIZE
    /\ client_out = << [off |-> 0, len |-> rcvd] >>

\* C17: cache_insert is called only after read returned 0 (EOF): a relay
\* that ended in a client write failure or an upstream read error has made no
\* cache_insert call.
C17_AdmitOnlyAfterEOF ==
    /\ admitted.called => (rpc = "done" /\ num_bytes = 0)
    /\ rpc = "dropped" => ~admitted.called

\* the relay was cut short by a client write failure after bytes were staged
C17_Witness ==
    /\ rpc = "dropped"
    /\ total_response_size > 0
    /\ client_out # WholeResponse
    /\ ~admitted.called

\* ------------------------------------------------------------------------
\* Properties of the hit path
\* ------------------------------------------------------------------------
\* C14: a request for a key whose response was admitted and not evicted (a
\* live entry holds it) is served from the cache. Its lookup does not reach
\* the end of the scan, where cache_lookup returns -1 and handle_request goes on
\* to open the origin connection; and when the lookup returns 0, the buffer
\* handle_request writes to the client holds exactly the bytes of an admitted
\* entry of that key.
C14_AdmittedKeyServedFromCache ==
    \A w \in Workers :
        /\ (pc[w] = "scan" /\ cur[w] = NULL) =>
              \A n \in LiveCells(cache) : cache.ent[n].key # key[w]
        /\ pc[w] = "unlock" =>
              \E n \in LiveCells(cache) :
                  /\ cache.ent[n].key = key[w]
                  /\ buf[w] = [data |-> cache.ent[n].data,
                               size |-> cache.ent[n].data_size]

\* ------------------------------------------------------------------------
\* Properties of the cache key
\* ------------------------------------------------------------------------
\* C11: a request is served from the cache only if the response was admitted
\* under the identical URI: the response a hit writes to the client was
\* admitted for the very URI of the request line.
C11_HitOnlyOnIdenticalURI ==
    served.hit => served.from = uri

\* C15: a request whose method is not GET, letter case put aside, is dropped:
\* when handle_request has returned for it the worker has made no cache
\* lookup, read no header line, opened no upstream connection and admitted
\* nothing, and when the thread has ended the client's descriptor is closed.
C15_NonGetDropped ==
    \A t \in Threads :
       (/\ wpc[t] \in {"ret", "free"}
        /\ method[t] # <<>>
        /\ ~strcasecmp_eq(method[t], <<"G", "E", "T">>)) =>
           /\ did[t] = NothingDone
           /\ server_fd[t] = NoFd
           /\ wpc[t] = "free" =>
                 \A f \in Fds : fdt[f].kind = "closed" \/ fdt[f].owner # conn[t]

C15_Witness ==
    \E t \in Threads :
       /\ wpc[t] = "free"
       /\ method[t] = <<"P", "O", "S", "T">>
       /\ did[t] = NothingDone
       /\ fdt[client_fd[t]].kind = "closed"
       /\ lastClose = [by |-> conn[t], fd |-> client_fd[t], was |-> "own"]

\* C18: an upstream descriptor is open only while the worker that opened it
\* is between create_server_fd and the close of server_fd: no worker returns
\* from handle_request, or ends, with its server_fd still open.
C18_ServerFdClosedBeforeEnd ==
    \A f \in Fds :
       fdt[f].kind = "server" =>
          \E t \in Threads :
             /\ conn[t] = fdt[f].owner
             /\ server_fd[t] = f
             /\ wpc[t] \in {"sendreq", "relay"}

\* C19: every close a worker issues is on a descriptor that is open and its
\* own: never on a number it has already closed, never on a descriptor that
\* another worker owns.
C19_ClientFdClosedOnce == lastClose.was \in {"none", "own"}

\* the worse half of C19 alone: no close lands on another worker's descriptor
NoForeignClose == lastClose.was # "foreign"

\* the lines of a block, each with its line end; text after the last line
\* end is a last line of its own
RECURSIVE SplitLines(_)
SplitLines(s) ==
    IF s = <<>> THEN <<>>
    ELSE LET e == strchr(s, "\n")
         IN  IF e = 0 THEN <<s>>
             ELSE <<SubSeq(s, 1, e)>> \o SplitLines(SubSeq(s, e + 1, Len(s)))

\* the line is a header field of this name, letter case put aside
FieldNameIs(l, name) ==
    /\ strchr(l, ":") = Len(name) + 1
    /\ \A i \in 1..Len(name) : ToLower(l[i]) = ToLower(name[i])

HostName == <<"H", "o", "s", "t">>
UserAgentName == <<"U", "s", "e", "r", "-", "A", "g", "e", "n", "t">>
ConnectionName == <<"C", "o", "n", "n", "e", "c", "t", "i", "o", "n">>
ProxyConnectionName == <<"P", "r", "o", "x", "y", "-", "C", "o", "n", "n", "e", "c", "t", "i", "o", "n">>

\* the client's lines that are none of the four fields the proxy sets
IsPassthrough(l) ==
    \A name \in {HostName, UserAgentName, ConnectionName, ProxyConnectionName} :
       ~FieldNameIs(l, name)
Passthrough(lines) == SelectSeq(lines, IsPassthrough)

CountField(L, name) == Cardinality({i \in 1..Len(L) : FieldNameIs(L[i], name)})

\* C20: for client header lines ended by a blank line the block handed back
\* is, line by line: the request line, one Host field, the proxy's
\* User-Agent, the client's other lines verbatim and in order,
\* Connection: close, Proxy-Connection: close, the blank line; with exactly
\* one field of each of the four names and exactly one blank line.
C20_HeaderBlockShape ==
    hpc = "done" =>
       LET L == SplitLines(request_hdr)
           n == Len(L)
       IN  /\ n >= 6
           /\ L[1] = REQUEST_LINE(REQUEST_LINE_PATH)
           /\ FieldNameIs(L[2], HostName)
           /\ L[3] = USER_AGENT_FLD
           /\ SubSeq(L, 4, n - 3) = Passthrough(hdr_in)
           /\ L[n - 2] = CONNECTION_FLD
           /\ L[n - 1] = PROXY_CONNECTION_FLD
           /\ L[n] = BLANK_LINE
           /\ CountField(L, HostName) = 1
           /\ CountField(L, UserAgentName) = 1
           /\ CountField(L, ConnectionName) = 1
           /\ CountField(L, ProxyConnectionName) = 1
           /\ Cardinality({i \in 1..n : L[i] = BLANK_LINE}) = 1

\* the client's Host lines, in the order read
ClientHostLines(lines) == SelectSeq(lines, LAMBDA l : FieldNameIs(l, HostName))

\* C21: the Host line of the block handed back is the client's last Host
\* line verbatim when the client sent one, and otherwise "Host: ", the
\* hostname, an ASCII colon, the port and the line end.
C21_HostLine ==
    hpc = "done" =>
       LET L == SplitLines(request_hdr)
           H == ClientHostLines(hdr_in)
       IN  /\ Len(L) >= 2
           /\ L[2] = IF H # <<>> THEN H[Len(H)]
                     ELSE <<"H", "o", "s", "t", ":", " ">> \o HDR_HOSTNAME \o <<":">>
                          \o HDR_PORT \o <<"\r", "\n">>

\* the half of C21 about a client that sends a Host line
ClientHostLineKept ==
    (hpc = "done" /\ ClientHostLines(hdr_in) # <<>>) =>
        SplitLines(request_hdr)[2] = ClientHostLines(hdr_in)[Len(ClientHostLines(hdr_in))]

\* C22: set_request_header returns success exactly when the blank line was
\* read; when the client's lines end in EOF or a read error before it, the
\* worker returns without an upstream connection and without an admit.
C22_HeaderFailureDrops ==
    \A t \in Threads :
       did[t].hdr =>
          /\ (did[t].return_cd = 1) <=> (did[t].hdr_end = "blank")
          /\ did[t].hdr_end # "blank" =>
                /\ did[t].return_cd = 0
                /\ wpc[t] \in {"ret", "free"}
                /\ ~did[t].connect
                /\ ~did[t].admit
                /\ server_fd[t] = NoFd

C22_Witness ==
    \E t \in Threads :
       /\ wpc[t] = "free"
       /\ did[t].hdr_end = "eof"
       /\ did[t].return_cd = 0
       /\ ~did[t].connect
       /\ fdt[client_fd[t]].kind = "closed"

\* the same in set_request_header itself: 1 is returned after the blank line
\* and only then, 0 after a failed read
RewriterReturn ==
    /\ hpc = "done" <=> hdr_ret = 1
    /\ hpc = "failed" <=> hdr_ret = 0

\* the first candidate for which socket and connect both succeed; 0 if none
FirstGood(cands) ==
    IF \E i \in 1..Len(cands) : cands[i] = "ok"
    THEN CHOOSE i \in 1..Len(cands) :
            cands[i] = "ok" /\ \A j \in 1..(i - 1) : cands[j] # "ok"
    ELSE 0

\* C23: create_server_fd tries the candidates in order; whenever it turns to
\* a candidate no socket of an earlier one is open; it returns the open
\* descriptor of the first candidate for which socket and connect both
\* succeed, having tried none after it, and -1 exactly when there is none.
C23_FirstGoodCandidate ==
    /\ \A i \in 1..Len(tried) : tried[i] = i
    /\ cpc = "loop" => socks = {}
    /\ (cpc = "done" /\ tried # <<>>) =>
          LET g == FirstGood(cand_ai)
          IN  IF g = 0
              THEN /\ conn_ret = -1
                   /\ Len(tried) = Len(cand_ai)
                   /\ socks = {}
              ELSE /\ conn_ret # -1
                   /\ socks = {[fd |-> conn_ret, cand |-> g]}
                   /\ Len(tried) = g

C23_Witness ==
    /\ cpc = "done"
    /\ cand_ai = <<"noconn", "nosock", "ok">>
    /\ tried = <<1, 2, 3>>
    /\ socks = {[fd |-> conn_ret, cand |-> 3]}

\* C24: no byte is stored outside the MAX_LINE bytes of the line buffer, and
\* for a client that sends MAX_LINE or more bytes with no line feed among
\* the first MAX_LINE, read_line returns 0 and the worker goes no further
\* than the error_read test: it drops the request and the connection is
\* closed, after which the next connection is accepted.
C24_OverlongLineDropped ==
    /\ bf_top < MAX_LINE
    /\ Overlong(lin) =>
          /\ lpc = "returned" => (line_ret = 0 /\ line_n = MAX_LINE)
          /\ lpc # "parsed"
          /\ ~lacted

C24_Witness ==
    /\ ldrops = 1
    /\ lconn = 2
    /\ ~Overlong(lin)
    /\ lpc = "parsed"
    /\ lacted

\* C25: a request whose URI contains no "//" is dropped and nothing else
\* happens: the worker neither goes on with the request nor reads through
\* an absent "//" position, and the process stays up for the requests that
\* follow.
C25_MalformedDropsOnlyItself ==
    /\ kpc # "crashed"
    /\ (nkreq > 0 /\ strstr_slashes(uri) = 0) => kpc = "idle"

\* the parts of a well-formed absolute URI, read off its grammar
\* scheme "//" authority [path], authority = host [":" port]
UriScheme(u) == SubSeq(u, 1, strstr_slashes(u) - 1)
UriRest(u) == SubSeq(u, strstr_slashes(u) + 2, Len(u))
UriHasPath(u) == strchr(UriRest(u), "/") # 0
UriAuthority(u) ==
    IF UriHasPath(u) THEN SubSeq(UriRest(u), 1, strchr(UriRest(u), "/") - 1) ELSE UriRest(u)
UriHasPort(u) == strchr(UriAuthority(u), ":") # 0

\* scheme://host[:port]path
Recompose(s, h, p, q, withPort) ==
    s \o <<"/", "/">> \o h \o (IF withPort THEN <<":">> \o p ELSE <<>>) \o q

\* the defaults and the port separator, as C27 states them
ParseDefaults ==
    /\ ~UriHasPath(uri) => path = <<"/">>
    /\ ~UriHasPort(uri) => port = <<"8", "0">>
    /\ hostname \o (IF UriHasPort(uri) THEN <<":">> \o port ELSE <<>>) = UriAuthority(uri)

\* C27 as stated: for every well-formed absolute URI, putting the parsed
\* parts together as scheme://host[:port]path gives the URI back.
C27_RecomposeGivesInput ==
    (kpc = "parsed" /\ uri \in URIs) =>
       /\ \E withPort \in BOOLEAN :
             Recompose(UriScheme(uri), hostname, port, path, withPort) = uri
       /\ ParseDefaults

\* C27 amended: putting the parsed parts together, with the port where the
\* URI had one, gives the URI back when it has a path and the URI followed
\* by "/" when it has none.
C27_RecomposeGivesInputOrSlash ==
    (kpc = "parsed" /\ uri \in URIs) =>
       /\ Recompose(UriScheme(uri), hostname, port, path, UriHasPort(uri))
             = (IF UriHasPath(uri) THEN uri ELSE uri \o <<"/">>)
       /\ ParseDefaults

C27_Witness ==
    /\ kpc = "parsed"
    /\ uri = <<"h", "t", "t", "p", ":", "/", "/", "a", "/", "x", ":", "1">>
    /\ hostname = <<"a">>
    /\ port = <<"8", "0">>
    /\ path = <<"/", "x", ":", "1">>

\* what holds of write_all at every step
WriteAllSafe ==
    /\ fd_out = SubSeq(WriteBuf(wa_n), 1, w_tot)
    /\ bf = w_tot
    /\ (w_cur = -1 /\ errno = "EINTR") => wa_pc = "loop"
    /\ (w_cur = -1 /\ errno # "EINTR") => (wa_pc = "done" /\ wa_ret = -1)
    /\ wa_pc = "done" =>
          \/ wa_ret = wa_n /\ fd_out = WriteBuf(wa_n)
          \/ wa_ret = -1 /\ w_cur <= 0 /\ errno # "EINTR"

\* C26: write_all returns n only when the n bytes of the buffer have gone
\* out in order, each write starting at the first byte not yet written; an
\* EINTR is retried, any other error returns -1; and the call returns when
\* the writes eventually take bytes or fail for good.
C26_WriteAll == []WriteAllSafe /\ <>(wa_pc = "done")

C26_Witness ==
    /\ wa_pc = "done"
    /\ wa_n = MaxWriteLen
    /\ wa_ret = wa_n
    /\ w_cur = 1
    /\ errno = "EINTR"
    /\ fd_out = WriteBuf(MaxWriteLen)

\* C28: set_request_header stores inside its MAX_LINE-byte buffers only: the
\* terminator after a line read, the passthrough block with its terminator,
\* and the assembled block with its terminator all stay below index MAX_LINE.
C28_StoresInsideBuffers ==
    /\ top.line < MAX_LINE
    /\ top.host_fld < MAX_LINE
    /\ top.other_flds < MAX_LINE
    /\ top.request_hdr < MAX_LINE

\* the parts of C28 one by one
LineTerminatorInside == top.line < MAX_LINE
PassthroughInside == top.other_flds < MAX_LINE
AssembledInside == top.request_hdr < MAX_LINE

====
